---------------------------- MODULE Spec2Model ----------------------------
(*
  Evolution_Visualizer: creatures with a small neural network sense a 2-D
  world, move, burst, collide with obstacles and boundaries, eat food, and
  are evolved generation by generation.

  Modelled code: src/app/creatures.py (Creature, Food, Obstacle),
  src/app/main.py (main loop), src/app/constants.py (configuration).

  Numbers.  The program computes in floats; the model computes in integers:
    - positions are integer grid points, headings are multiples of 90
      degrees, so the unit heading vector is one of (1,0),(0,1),(-1,0),(0,-1);
    - distances are compared through their squares (exact);
    - a normalised sensor value (a float in [-1,1]) is rounded to the nearest
      integer, and tanh is rounded the same way (tanh(v) for an integer v is
      -1, 0 or 1 after rounding);
    - BURST_NN_THRESHOLD and BURST_SPEED_MULTIPLIER are kept in tenths.
  Randomness (random.random, random.uniform, random.randint, random.choice)
  is a nondeterministic choice from a small set of draws.

  Configuration.  The command-line arguments of constants.py and the
  constants that creatures.py and main.py read from the constants module are
  the fields of the record cfg, chosen in Init and never changed.

  Calls.  main.py calls creature.move and parent.reproduce with fewer
  arguments than creatures.py declares, and reads one counter under another
  name; the model passes the globals of main.py that the parameters name
  (food_items, obstacles, creatures, the constants).
*)
EXTENDS Integers, Sequences, FiniteSets, TLC

VARIABLES
    cfg,                          \* configuration (constants module)
    rnd,                          \* what the random module can return
    heap,                         \* the list objects of the creatures' genomes
    gui,                          \* gui.py: the control panel and its subprocesses
    creatures,                    \* main.py: creatures
    food_items,                   \* main.py: food_items
    obstacles,                    \* main.py: obstacles
    food_eaten_count,             \* main.py: food_eaten_count
    food_eaten_this_generation,   \* main.py: food_eaten_this_generation
    current_generation,           \* main.py: current_generation
    frame_count_this_generation,  \* main.py: frame_count_this_generation
    total_bursts_activated_gen,   \* main.py: total_bursts_activated_gen
    total_burst_energy_spent_gen, \* main.py: total_burst_energy_spent_gen
    pc,                           \* position of the main loop inside a frame
    idx,                          \* index of the creature the pass is at
    log_rows,                     \* main.py: data rows written to log_file
    last                          \* observation of the last operation

vars == <<cfg, rnd, heap, gui, creatures, food_items, obstacles, food_eaten_count,
          food_eaten_this_generation, current_generation,
          frame_count_this_generation, total_bursts_activated_gen,
          total_burst_energy_spent_gen, pc, idx, log_rows, last>>

-----------------------------------------------------------------------------
(* Program constants that are not command-line arguments. *)

CREATURE_RADIUS == 5
FOOD_RADIUS == 3
BURST_ENERGY_COST == 10
\* 1.8, in tenths
BURST_SPEED_MULTIPLIER == 18
BURST_DURATION_FRAMES == 10
\* 0.5, in tenths
BURST_NN_THRESHOLD == 5
NN_INPUT_NODES == 3
NN_HIDDEN_NODES == 4
NN_OUTPUT_NODES == 2

(* Configuration read through the constants module. *)
WIDTH == cfg.WIDTH
HEIGHT == cfg.HEIGHT
INITIAL_CREATURE_COUNT == cfg.INITIAL_CREATURE_COUNT
CREATURE_ENERGY_DECAY == cfg.CREATURE_ENERGY_DECAY
FOOD_ENERGY_GAIN == cfg.FOOD_ENERGY_GAIN
MAX_FOOD_COUNT == cfg.MAX_FOOD_COUNT
\* a probability, in percent
MUTATION_CHANCE == cfg.MUTATION_CHANCE
NN_MUTATION_AMOUNT == cfg.NN_MUTATION_AMOUNT
COLOR_MUTATION_AMOUNT == cfg.COLOR_MUTATION_AMOUNT
GENERATION_LENGTH_FRAMES == cfg.GENERATION_LENGTH_FRAMES
\* a fraction, in percent
SELECTION_PERCENTAGE == cfg.SELECTION_PERCENTAGE
CREATURE_MAX_ENERGY == cfg.CREATURE_MAX_ENERGY
FOOD_LIMIT_PER_GENERATION == cfg.FOOD_LIMIT_PER_GENERATION
CREATURE_BASE_SPEED == cfg.CREATURE_BASE_SPEED
MAX_TURN_ANGLE == cfg.MAX_TURN_ANGLE
OBSTACLE_PENALTY == cfg.OBSTACLE_PENALTY
COLLISION_PENALTY_BREEDING == cfg.COLLISION_PENALTY_BREEDING
BURST_FITNESS_BONUS == cfg.BURST_FITNESS_BONUS
MIN_SPAWN_DISTANCE_FROM_OBSTACLE == cfg.MIN_SPAWN_DISTANCE_FROM_OBSTACLE
NUM_OBSTACLES == cfg.NUM_OBSTACLES
OBSTACLE_SIZE == cfg.OBSTACLE_SIZE
LOG_ENABLED == cfg.LOG_ENABLED

-----------------------------------------------------------------------------
(* Arithmetic helpers. *)

Max(a, b) == IF a >= b THEN a ELSE b
Min(a, b) == IF a <= b THEN a ELSE b
Abs(a) == IF a < 0 THEN -a ELSE a
Sq(a) == a * a

\* n / d for d # 0, rounded to the nearest integer (ties away from zero)
RoundDiv(n, d) ==
    LET a == IF d < 0 THEN -n ELSE n
        b == IF d < 0 THEN -d ELSE d
    IN IF a >= 0 THEN (2 * a + b) \div (2 * b)
       ELSE -((2 * (-a) + b) \div (2 * b))

\* math.hypot(WIDTH, HEIGHT) squared
DiagSq == Sq(WIDTH) + Sq(HEIGHT)

\* sqrt(d2) < math.hypot(WIDTH, HEIGHT) + k, for k >= 0
BelowDiagPlus(d2, k) ==
    LET lhs == d2 - DiagSq - Sq(k)
    IN lhs < 0 \/ Sq(lhs) < 4 * Sq(k) * DiagSq

\* round(sqrt(d2) / math.hypot(WIDTH, HEIGHT)), for d2 <= 4 * DiagSq
NormDist(d2) == IF 4 * d2 >= DiagSq THEN 1 ELSE 0

\* round((sqrt(d2) - r) / math.hypot(WIDTH, HEIGHT)), same range
NormEdgeDist(d2, r) ==
    LET lhs == 4 * d2 - DiagSq - 4 * Sq(r)
    IN IF lhs >= 0 /\ Sq(lhs) >= 16 * Sq(r) * DiagSq THEN 1 ELSE 0

\* unit vector of a heading that is a multiple of 90 degrees
DirX(d) == IF d % 360 = 0 THEN 1 ELSE IF d % 360 = 180 THEN -1 ELSE 0
DirY(d) == IF d % 360 = 90 THEN 1 ELSE IF d % 360 = 270 THEN -1 ELSE 0

\* nn.tanh, rounded to the nearest integer
tanh(value) == IF value > 0 THEN 1 ELSE IF value < 0 THEN -1 ELSE 0

\* squared distance from a point to the closest point of a rectangle
RectDistSq(px, py, obs) ==
    LET closest_x == Max(obs.x, Min(px, obs.x + obs.width))
        closest_y == Max(obs.y, Min(py, obs.y + obs.height))
    IN Sq(px - closest_x) + Sq(py - closest_y)

Range(s) == {s[i] : i \in DOMAIN s}

-----------------------------------------------------------------------------
(* creatures.py: is_position_safe *)

is_position_safe(pos_x, pos_y, check_radius, obstacles_list) ==
    \A k \in DOMAIN obstacles_list :
        ~(RectDistSq(pos_x, pos_y, obstacles_list[k])
            < Sq(check_radius + MIN_SPAWN_DISTANCE_FROM_OBSTACLE))

-----------------------------------------------------------------------------
(* creatures.py: Creature.get_sensor_data *)

\* The scan of "for t in targets: if dist < nearest: nearest = dist": d2s are
\* the squared distances in iteration order, best = 0 is the initial value
\* math.hypot(WIDTH, HEIGHT) + k of the nearest distance.
RECURSIVE nearest_scan(_, _, _, _)
nearest_scan(d2s, k, i, best) ==
    IF i > Len(d2s) THEN best
    ELSE LET closer == IF best = 0 THEN BelowDiagPlus(d2s[i], k)
                       ELSE d2s[i] < d2s[best]
         IN nearest_scan(d2s, k, i + 1, IF closer THEN i ELSE best)

\* angle_rad / math.pi of the vector (vx, vy) against the heading, rounded
normalized_angle(self, vx, vy) ==
    LET hx == DirX(self.direction)
        hy == DirY(self.direction)
        dot_product == vx * hx + vy * hy
        cross_product == hx * vy - hy * vx
        magnitude == IF dot_product <= 0 THEN 1 ELSE 0
    IN IF cross_product < 0 THEN -magnitude ELSE magnitude

sensor_food(self, foods) ==
    IF foods # <<>>
    THEN LET d2s == [k \in DOMAIN foods |->
                        Sq(self.x - foods[k].x) + Sq(self.y - foods[k].y)]
             n == nearest_scan(d2s, 1, 1, 0)
         IN IF n # 0
            THEN <<NormDist(d2s[n])>> \o
                 (IF d2s[n] > 0
                  THEN <<normalized_angle(self, foods[n].x - self.x,
                                          foods[n].y - self.y)>>
                  ELSE <<0>>)
            ELSE <<0, 0>>
    ELSE <<0, 0>>

sensor_neighbor(self, all_creatures) ==
    LET others == SelectSeq(all_creatures, LAMBDA o : o.id # self.id)
        d2s == [k \in DOMAIN others |->
                   Sq(self.x - others[k].x) + Sq(self.y - others[k].y)]
        n == nearest_scan(d2s, 1, 1, 0)
    IN IF n # 0
       THEN <<NormDist(d2s[n]),
              RoundDiv(others[n].current_speed * 10,
                       CREATURE_BASE_SPEED * BURST_SPEED_MULTIPLIER)>> \o
            (IF d2s[n] > 0
             THEN <<normalized_angle(self, others[n].x - self.x,
                                     others[n].y - self.y)>>
             ELSE <<0, 0>>)
       ELSE <<0, 0, 0>>

sensor_obstacle(self, obs_list) ==
    IF obs_list # <<>>
    THEN LET d2s == [k \in DOMAIN obs_list |->
                        RectDistSq(self.x, self.y, obs_list[k])]
             n == nearest_scan(d2s, 1 + CREATURE_RADIUS, 1, 0)
             \* twice the vector to the obstacle's centre
             vx2 == 2 * obs_list[n].x + obs_list[n].width - 2 * self.x
             vy2 == 2 * obs_list[n].y + obs_list[n].height - 2 * self.y
         IN IF n # 0
            THEN <<NormEdgeDist(d2s[n], CREATURE_RADIUS)>> \o
                 (IF vx2 # 0 \/ vy2 # 0
                  THEN <<normalized_angle(self, vx2, vy2)>>
                  ELSE <<0>>)
            ELSE <<0, 0>>
    ELSE <<0, 0>>

get_sensor_data(self, foods, all_creatures, obs_list) ==
    <<RoundDiv(self.energy, CREATURE_MAX_ENERGY)>>
        \o sensor_food(self, foods)
        \o sensor_neighbor(self, all_creatures)
        \o sensor_obstacle(self, obs_list)

-----------------------------------------------------------------------------
(* creatures.py: Creature.think *)

RECURSIVE SeqSum(_)
SeqSum(s) == IF s = <<>> THEN 0 ELSE Head(s) + SeqSum(Tail(s))

\* lines 308-326: the only subscripts think does not guard are inputs[i]
\* (line 312, evaluated for a weight that exists), biases_h[j] (line 313) and
\* biases_o[j] (line 324); an IndexError of one of them is the only way the
\* call ends without a result.
think_raises(self, inputs) ==
    \/ \E i \in 1..NN_INPUT_NODES, j \in 1..self.nn_hidden_nodes :
          /\ i <= Len(self.weights_ih)
          /\ j <= Len(self.weights_ih[i])
          /\ i > Len(inputs)
    \/ Len(self.biases_h) < self.nn_hidden_nodes
    \/ Len(self.biases_o) < NN_OUTPUT_NODES

think(self, inputs) ==
    LET hidden_inputs == [j \in 1..self.nn_hidden_nodes |->
            SeqSum([i \in 1..NN_INPUT_NODES |->
                IF i <= Len(self.weights_ih) /\ j <= Len(self.weights_ih[i])
                THEN inputs[i] * self.weights_ih[i][j] ELSE 0])]
        hidden_outputs == [j \in 1..self.nn_hidden_nodes |->
            tanh(hidden_inputs[j] + self.biases_h[j])]
        output_inputs == [j \in 1..NN_OUTPUT_NODES |->
            SeqSum([i \in 1..self.nn_hidden_nodes |->
                IF i <= Len(self.weights_ho) /\ j <= Len(self.weights_ho[i])
                THEN hidden_outputs[i] * self.weights_ho[i][j] ELSE 0])]
        final_outputs == [j \in 1..NN_OUTPUT_NODES |->
            tanh(output_inputs[j] + self.biases_o[j])]
    IN <<final_outputs[1], final_outputs[2]>>

-----------------------------------------------------------------------------
(* creatures.py: Creature.check_collision_with_obstacle *)

check_collision_with_obstacle(self, pos_x, pos_y, obstacle) ==
    RectDistSq(pos_x, pos_y, obstacle) < Sq(CREATURE_RADIUS)

-----------------------------------------------------------------------------
(* creatures.py: Creature.move, in the order of its statements *)

\* the burst trigger with a strict energy test
move_burst_trigger_strict(self, burst_decision_raw) ==
    IF ~self.is_bursting
       /\ 10 * burst_decision_raw > BURST_NN_THRESHOLD
       /\ self.energy > BURST_ENERGY_COST
    THEN [self EXCEPT
            !.energy = @ - BURST_ENERGY_COST,
            !.is_bursting = TRUE,
            !.burst_frames_left = BURST_DURATION_FRAMES,
            !.bursts_activated_individual = @ + 1,
            !.burst_energy_spent_individual = @ + BURST_ENERGY_COST]
    ELSE self

\* the burst trigger without the bookkeeping of the energy spent
move_burst_trigger_unbooked(self, burst_decision_raw) ==
    IF ~self.is_bursting
       /\ 10 * burst_decision_raw > BURST_NN_THRESHOLD
       /\ self.energy >= BURST_ENERGY_COST
    THEN [self EXCEPT
            !.energy = @ - BURST_ENERGY_COST,
            !.is_bursting = TRUE,
            !.burst_frames_left = BURST_DURATION_FRAMES,
            !.bursts_activated_individual = @ + 1]
    ELSE self

\* lines 346-354: the burst trigger
move_burst_trigger(self, burst_decision_raw) ==
    IF ~self.is_bursting
       /\ 10 * burst_decision_raw > BURST_NN_THRESHOLD
       /\ self.energy >= BURST_ENERGY_COST
    THEN [self EXCEPT
            !.energy = @ - BURST_ENERGY_COST,
            !.is_bursting = TRUE,
            !.burst_frames_left = BURST_DURATION_FRAMES,
            !.bursts_activated_individual = @ + 1,
            !.burst_energy_spent_individual = @ + BURST_ENERGY_COST]
    ELSE self

\* the burst countdown that clears the flag one move late
move_speed_late_clear(self) ==
    IF self.is_bursting
    THEN [self EXCEPT
            !.current_speed = (self.speed * BURST_SPEED_MULTIPLIER) \div 10,
            !.burst_frames_left = @ - 1,
            !.is_bursting = ~(self.burst_frames_left - 1 < 0)]
    ELSE [self EXCEPT !.current_speed = self.speed]

\* lines 356-361: the speed of this move and the burst countdown
move_speed(self) ==
    IF self.is_bursting
    THEN [self EXCEPT
            !.current_speed = (self.speed * BURST_SPEED_MULTIPLIER) \div 10,
            !.burst_frames_left = @ - 1,
            !.is_bursting = ~(self.burst_frames_left - 1 <= 0)]
    ELSE [self EXCEPT !.current_speed = self.speed]

\* lines 364-365: the heading
move_turn(self, steering_force) ==
    [self EXCEPT !.direction = (@ + steering_force * MAX_TURN_ANGLE) % 360]

\* the obstacle check without the "break": every obstacle hit is penalised
move_obstacles_every_hit(self, obstacles_ref) ==
    LET proposed_x == self.x + self.current_speed * DirX(self.direction)
        proposed_y == self.y + self.current_speed * DirY(self.direction)
        hits == Cardinality({k \in DOMAIN obstacles_ref :
            check_collision_with_obstacle(self, proposed_x, proposed_y,
                                          obstacles_ref[k])})
    IN IF hits > 0
       THEN [self EXCEPT
               !.energy = Max(0, @ - hits * OBSTACLE_PENALTY),
               !.collisions_individual = @ + hits,
               !.direction = (@ + hits * 180) % 360]
       ELSE [self EXCEPT !.x = proposed_x, !.y = proposed_y]

\* lines 371-387: the obstacle check on the proposed position
move_obstacles(self, obstacles_ref) ==
    LET proposed_x == self.x + self.current_speed * DirX(self.direction)
        proposed_y == self.y + self.current_speed * DirY(self.direction)
        collided == \E k \in DOMAIN obstacles_ref :
            check_collision_with_obstacle(self, proposed_x, proposed_y,
                                          obstacles_ref[k])
    IN IF collided
       THEN [self EXCEPT
               !.energy = Max(0, @ - OBSTACLE_PENALTY),
               !.collisions_individual = @ + 1,
               !.direction = (@ + 180) % 360]
       ELSE [self EXCEPT !.x = proposed_x, !.y = proposed_y]

\* the world boundary with a left edge that reflects without putting the
\* creature back
move_boundary_open_left(self) ==
    LET c1 == IF self.x - CREATURE_RADIUS < 0
              THEN [self EXCEPT !.direction = 180 - @]
              ELSE IF self.x + CREATURE_RADIUS > WIDTH
              THEN [self EXCEPT !.x = WIDTH - CREATURE_RADIUS,
                                !.direction = 180 - @]
              ELSE self
    IN IF c1.y - CREATURE_RADIUS < 0
       THEN [c1 EXCEPT !.y = CREATURE_RADIUS, !.direction = 360 - @]
       ELSE IF c1.y + CREATURE_RADIUS > HEIGHT
       THEN [c1 EXCEPT !.y = HEIGHT - CREATURE_RADIUS,
                       !.direction = 360 - @]
       ELSE c1

\* lines 389-402: the world boundary
move_boundary(self) ==
    LET c1 == IF self.x - CREATURE_RADIUS < 0
              THEN [self EXCEPT !.x = CREATURE_RADIUS,
                                !.direction = 180 - @]
              ELSE IF self.x + CREATURE_RADIUS > WIDTH
              THEN [self EXCEPT !.x = WIDTH - CREATURE_RADIUS,
                                !.direction = 180 - @]
              ELSE self
    IN IF c1.y - CREATURE_RADIUS < 0
       THEN [c1 EXCEPT !.y = CREATURE_RADIUS, !.direction = 360 - @]
       ELSE IF c1.y + CREATURE_RADIUS > HEIGHT
       THEN [c1 EXCEPT !.y = HEIGHT - CREATURE_RADIUS,
                       !.direction = 360 - @]
       ELSE c1

\* lines 404-411: energy decay and the dying state
move_decay(self) ==
    LET c1 == IF ~self.is_dying
              THEN [self EXCEPT !.energy = @ - CREATURE_ENERGY_DECAY]
              ELSE self
    IN IF c1.energy <= 0 /\ ~c1.is_dying
       THEN [c1 EXCEPT !.is_dying = TRUE, !.fade_alpha = 255]
       ELSE c1

\* the creature just before the energy decay of lines 404-411
move_before_decay(self, foods, obs_list, all_creatures) ==
    LET out == think(self, get_sensor_data(self, foods, all_creatures,
                                           obs_list))
    IN move_boundary(
         move_obstacles(
           move_turn(move_speed(move_burst_trigger(self, out[2])), out[1]),
           obs_list))

move(self, foods, obs_list, all_creatures) ==
    move_decay(move_before_decay(self, foods, obs_list, all_creatures))

\* the creature after each step of move up to the obstacle check: after the
\* burst trigger (line 354), after the heading update (line 365) and after
\* the obstacle check (line 387)
move_steps(self, foods, obs_list, all_creatures) ==
    LET out == think(self, get_sensor_data(self, foods, all_creatures,
                                           obs_list))
        triggered == move_burst_trigger(self, out[2])
        turned == move_turn(move_speed(triggered), out[1])
    IN [triggered |-> triggered, turned |-> turned,
        hit |-> move_obstacles(turned, obs_list)]

-----------------------------------------------------------------------------
(* creatures.py: Creature.eat_food *)

\* the indices of the food items within reach, in list order
eaten_food(self, food_items_list) ==
    {k \in DOMAIN food_items_list :
        Sq(self.x - food_items_list[k].x) + Sq(self.y - food_items_list[k].y)
            < Sq(CREATURE_RADIUS + FOOD_RADIUS)}

\* energy after eating one more item
eat_one(energy) == Min(energy + FOOD_ENERGY_GAIN, CREATURE_MAX_ENERGY)

RECURSIVE eat_times(_, _)
eat_times(energy, n) ==
    IF n = 0 THEN energy ELSE eat_times(eat_one(energy), n - 1)

eat_food(self, food_items_list) ==
    LET n == Cardinality(eaten_food(self, food_items_list))
    IN [self EXCEPT !.energy = eat_times(@, n),
                    !.food_eaten_individual = @ + n]

-----------------------------------------------------------------------------
(* creatures.py: Creature.calculate_fitness *)

\* the fitness without its floor at 0
calculate_fitness_unclamped(self) ==
    self.food_eaten_individual * FOOD_ENERGY_GAIN
    - self.collisions_individual * COLLISION_PENALTY_BREEDING
    + self.bursts_activated_individual * BURST_FITNESS_BONUS

\* lines 520-528
calculate_fitness(self) ==
    LET fitness == self.food_eaten_individual * FOOD_ENERGY_GAIN
                   - self.collisions_individual * COLLISION_PENALTY_BREEDING
                   + self.bursts_activated_individual * BURST_FITNESS_BONUS
    IN Max(0, fitness)

-----------------------------------------------------------------------------
(* creatures.py: Creature.__init__ and Food.__init__ *)

\* Lines 88-128 with every argument given: the caller draws the values that
\* __init__ would draw at random (position, color, direction, weights).
\* id and born identify the object: id is its index in the population it was
\* created for, born the generation it was created in.
Creature(id, born, x, y, color, energy, direction, nn_weights_ih, nn_biases_h, nn_weights_ho, nn_biases_o, nn_hidden_nodes) ==
    [id |-> id, born |-> born, x |-> x, y |-> y, color |-> color,
     energy |-> energy, direction |-> direction,
     speed |-> CREATURE_BASE_SPEED, current_speed |-> CREATURE_BASE_SPEED,
     is_bursting |-> FALSE, burst_frames_left |-> 0,
     food_eaten_individual |-> 0, collisions_individual |-> 0,
     bursts_activated_individual |-> 0, burst_energy_spent_individual |-> 0,
     is_dying |-> FALSE, fade_alpha |-> 255,
     nn_hidden_nodes |-> nn_hidden_nodes,
     weights_ih |-> nn_weights_ih, biases_h |-> nn_biases_h,
     weights_ho |-> nn_weights_ho, biases_o |-> nn_biases_o]

\* Lines 72-86 / 646-659: the position a bounded search ends with.  tried is
\* the last position drawn in the loop, fallback the one drawn after the
\* loop gave up.
placed_position(tried, fallback, radius, obstacles_ref) ==
    IF is_position_safe(tried[1], tried[2], radius, obstacles_ref)
    THEN tried ELSE fallback

\* The loop gives up only after 1000 unsafe draws in a row: if its last draw
\* is unsafe, no position it can draw is safe.
search_possible(tried, all_tried, radius, obstacles_ref) ==
    \/ is_position_safe(tried[1], tried[2], radius, obstacles_ref)
    \/ \A t \in all_tried : ~is_position_safe(t[1], t[2], radius, obstacles_ref)

-----------------------------------------------------------------------------
(* creatures.py: Creature.reproduce *)

\* The genes of a creature, as addresses.
ColorGenes == {<<"color", i>> : i \in 1..3}
GenesIH(h) == {<<"ih", i, j>> : i \in 1..NN_INPUT_NODES, j \in 1..h}
GenesH(h) == {<<"h", i>> : i \in 1..h}
GenesHO(h) == {<<"ho", i, j>> : i \in 1..h, j \in 1..NN_OUTPUT_NODES}
GenesO == {<<"o", i>> : i \in 1..NN_OUTPUT_NODES}
Genes(h) == ColorGenes \cup GenesIH(h) \cup GenesH(h) \cup GenesHO(h)
                \cup GenesO

\* One run of reproduce draws, for every gene g, random.random() and
\* random.uniform(-amount, amount).  A draw d gives them: the random() of g
\* is 0 if g \in d.low and 99 percent otherwise; the uniform() is
\* d.sign * amount.  d.fresh is the value of random.uniform(-1, 1).
random_percent(d, g) == IF g \in d.low THEN 0 ELSE 99

\* the mutation test with <= in place of <
mutates_inclusive(d, g, mutation_chance) == random_percent(d, g) <= mutation_chance

mutates(d, g, mutation_chance) == random_percent(d, g) < mutation_chance

\* lines 551-556
offspring_color(self, d, mutation_chance, color_mutation_amount) ==
    [i \in 1..3 |->
        IF mutates(d, <<"color", i>>, mutation_chance)
        THEN Max(0, Min(255, self.color[i] + d.sign * color_mutation_amount))
        ELSE self.color[i]]

mutated(v, d, g, mutation_chance, nn_mutation_amount) ==
    IF mutates(d, g, mutation_chance)
    THEN v + d.sign * nn_mutation_amount ELSE v

\* lines 560-576
offspring_weights_ih(self, d, mutation_chance, nn_mutation_amount, nn_hidden_nodes) ==
    [i \in 1..NN_INPUT_NODES |-> [j \in 1..nn_hidden_nodes |->
        mutated(IF i <= Len(self.weights_ih) /\ j <= Len(self.weights_ih[i])
                THEN self.weights_ih[i][j] ELSE d.fresh,
                d, <<"ih", i, j>>, mutation_chance, nn_mutation_amount)]]

\* lines 562, 578-585
offspring_biases_h(self, d, mutation_chance, nn_mutation_amount, nn_hidden_nodes) ==
    [i \in 1..nn_hidden_nodes |->
        mutated(IF i <= Len(self.biases_h) THEN self.biases_h[i] ELSE d.fresh,
                d, <<"h", i>>, mutation_chance, nn_mutation_amount)]

\* lines 563-564, 587-595
offspring_weights_ho(self, d, mutation_chance, nn_mutation_amount, nn_hidden_nodes) ==
    [i \in 1..nn_hidden_nodes |-> [j \in 1..NN_OUTPUT_NODES |->
        mutated(IF i <= Len(self.weights_ho) /\ j <= Len(self.weights_ho[i])
                THEN self.weights_ho[i][j] ELSE d.fresh,
                d, <<"ho", i, j>>, mutation_chance, nn_mutation_amount)]]

\* lines 565, 597-604
offspring_biases_o(self, d, mutation_chance, nn_mutation_amount) ==
    [i \in 1..NN_OUTPUT_NODES |->
        mutated(IF i <= Len(self.biases_o) THEN self.biases_o[i] ELSE d.fresh,
                d, <<"o", i>>, mutation_chance, nn_mutation_amount)]

\* lines 606-620: d.first is the offset drawn within 2 radii, d.retry the
\* last offset drawn by the retry loop (within 5 radii), d.fallback the
\* position drawn when the loop gave up.
offspring_position(self, d, obstacles_ref) ==
    LET first == <<self.x + d.first[1], self.y + d.first[2]>>
        retry == <<self.x + d.retry[1], self.y + d.retry[2]>>
    IN IF is_position_safe(first[1], first[2], CREATURE_RADIUS, obstacles_ref)
       THEN first
       ELSE placed_position(retry, d.fallback, CREATURE_RADIUS, obstacles_ref)

\* The retry loop gives up only after 100 unsafe draws in a row.
offspring_possible(self, d, all_draws, obstacles_ref) ==
    \/ is_position_safe(self.x + d.first[1], self.y + d.first[2], CREATURE_RADIUS, obstacles_ref)
    \/ search_possible(<<self.x + d.retry[1], self.y + d.retry[2]>>,
                       {<<self.x + e.retry[1], self.y + e.retry[2]>> : e \in all_draws},
                       CREATURE_RADIUS, obstacles_ref)

reproduce(self, d, id, born, mutation_chance, nn_mutation_amount, color_mutation_amount, nn_hidden_nodes, obstacles_ref) ==
    LET pos == offspring_position(self, d, obstacles_ref)
    IN Creature(id, born, pos[1], pos[2],
                offspring_color(self, d, mutation_chance,
                                color_mutation_amount),
                CREATURE_MAX_ENERGY, d.direction,
                offspring_weights_ih(self, d, mutation_chance,
                                     nn_mutation_amount, nn_hidden_nodes),
                offspring_biases_h(self, d, mutation_chance,
                                   nn_mutation_amount, nn_hidden_nodes),
                offspring_weights_ho(self, d, mutation_chance,
                                     nn_mutation_amount, nn_hidden_nodes),
                offspring_biases_o(self, d, mutation_chance,
                                   nn_mutation_amount),
                nn_hidden_nodes)

-----------------------------------------------------------------------------
(* main.py: create_initial_population and initialize_obstacles *)

\* A draw of Creature(obstacles_ref=obstacles): d.tried and d.fallback are
\* the positions of the bounded search, d.color, d.direction and d.genome
\* the random color, heading and network.
initial_creature(d, id, born, obstacles_ref) ==
    LET pos == placed_position(d.tried, d.fallback, CREATURE_RADIUS, obstacles_ref)
    IN Creature(id, born, pos[1], pos[2], d.color, CREATURE_MAX_ENERGY,
                d.direction, d.genome.weights_ih, d.genome.biases_h,
                d.genome.weights_ho, d.genome.biases_o, NN_HIDDEN_NODES)

initial_possible(d, all_draws, obstacles_ref) ==
    search_possible(d.tried, {e.tried : e \in all_draws}, CREATURE_RADIUS, obstacles_ref)

create_initial_population(count, ds, born, obstacles_ref) ==
    [k \in 1..count |-> initial_creature(ds[k], k, born, obstacles_ref)]

\* the populations create_initial_population can return
initial_populations(count, born, obstacles_ref) ==
    {create_initial_population(count, ds, born, obstacles_ref) :
        ds \in [1..count -> {d \in rnd.initial : initial_possible(d, rnd.initial, obstacles_ref)}]}

Obstacle(x, y, width, height) ==
    [x |-> x, y |-> y, width |-> width, height |-> height]

\* lines 98-101
obstacles_overlap(a, b) ==
    /\ a.x < b.x + b.width
    /\ a.x + a.width > b.x
    /\ a.y < b.y + b.height
    /\ a.y + a.height > b.y

\* the distance test of a new obstacle without the creatures
obstacle_too_close_food_only(new_obs, min_spawn_distance, creature_list, food_list) ==
    \E k \in DOMAIN food_list :
        RectDistSq(food_list[k].x, food_list[k].y, new_obs)
            < Sq(FOOD_RADIUS + min_spawn_distance)

\* lines 108-130: the new obstacle is too close to a creature or a food item
obstacle_too_close(new_obs, min_spawn_distance, creature_list, food_list) ==
    \/ \E k \in DOMAIN creature_list :
          RectDistSq(creature_list[k].x, creature_list[k].y, new_obs)
              < Sq(CREATURE_RADIUS + min_spawn_distance)
    \/ \E k \in DOMAIN food_list :
          RectDistSq(food_list[k].x, food_list[k].y, new_obs)
              < Sq(FOOD_RADIUS + min_spawn_distance)

\* Every corner random.randint(0, WIDTH - obstacle_size) and
\* random.randint(0, HEIGHT - obstacle_size) can draw (lines 91-92).
AllObstacleSpots(obstacle_size) ==
    (0..(WIDTH - obstacle_size)) \X (0..(HEIGHT - obstacle_size))

\* lines 87-131: the "while True" loop of an obstacle has no attempt bound and
\* ends only at a draw that passes the three checks.  The call returns with
\* positive probability iff some list of corners passes them all.
placement_possible(num_obstacles, obstacle_size, min_spawn_distance, creature_list, food_list) ==
    \E layout \in [1..num_obstacles -> {Obstacle(p[1], p[2], obstacle_size, obstacle_size) : p \in AllObstacleSpots(obstacle_size)}] :
        /\ \A i, j \in 1..num_obstacles : i < j => ~obstacles_overlap(layout[j], layout[i])
        /\ \A i \in 1..num_obstacles : ~obstacle_too_close(layout[i], min_spawn_distance, creature_list, food_list)

\* The lists initialize_obstacles can return: every obstacle is the first
\* draw of its "while True" loop that passed the three checks.  spots are the
\* corners random.randint can draw.
initialize_obstacles(num_obstacles, spots, obstacle_size, min_spawn_distance, creature_list, food_list) ==
    {layout \in [1..num_obstacles -> {Obstacle(p[1], p[2], obstacle_size, obstacle_size) : p \in spots}] :
        /\ \A a, b \in 1..num_obstacles :
              a < b => ~obstacles_overlap(layout[b], layout[a])
        /\ \A a \in 1..num_obstacles :
              ~obstacle_too_close(layout[a], min_spawn_distance, creature_list, food_list)}

-----------------------------------------------------------------------------
(* main.py: selection, lines 247-252 *)

\* list.sort(key=food_eaten_individual, reverse=True): stable, descending
RECURSIVE insert_desc(_, _)
insert_desc(sorted, c) ==
    IF sorted = <<>> THEN <<c>>
    ELSE IF Head(sorted).food_eaten_individual >= c.food_eaten_individual
         THEN <<Head(sorted)>> \o insert_desc(Tail(sorted), c)
         ELSE <<c>> \o sorted

RECURSIVE sort_desc(_, _)
sort_desc(list, sorted) ==
    IF list = <<>> THEN sorted
    ELSE sort_desc(Tail(list), insert_desc(sorted, Head(list)))

living_creatures_for_selection(creature_list) ==
    sort_desc(SelectSeq(creature_list, LAMBDA c : ~c.is_dying), <<>>)

\* the number of parents without the minimum of one
num_survivors_no_minimum(creature_list) ==
    (Len(living_creatures_for_selection(creature_list)) * SELECTION_PERCENTAGE) \div 100

num_survivors(creature_list) ==
    Max(1, (Len(living_creatures_for_selection(creature_list)) * SELECTION_PERCENTAGE) \div 100)

survivors(creature_list) ==
    LET living == living_creatures_for_selection(creature_list)
    IN SubSeq(living, 1, Min(num_survivors(creature_list), Len(living)))

-----------------------------------------------------------------------------
(* Bounds and the sets the random draws are taken from. *)

\* the main loop is followed up to this generation
MaxGenerations == 2

\* networks a random initialisation can produce (weights in [-1, 1])
ZeroGenome ==
    [weights_ih |-> [i \in 1..NN_INPUT_NODES |-> [j \in 1..NN_HIDDEN_NODES |-> 0]],
     biases_h |-> [j \in 1..NN_HIDDEN_NODES |-> 0],
     weights_ho |-> [i \in 1..NN_HIDDEN_NODES |-> [j \in 1..NN_OUTPUT_NODES |-> 0]],
     biases_o |-> [j \in 1..NN_OUTPUT_NODES |-> 0]]

\* always steers, never bursts
TurnerGenome == [ZeroGenome EXCEPT !.biases_o = <<1, 0>>]

\* bursts whenever it can
BursterGenome == [ZeroGenome EXCEPT !.biases_o = <<0, 1>>]

\* bursts when its energy input rounds to 0
HungryGenome ==
    [ZeroGenome EXCEPT !.weights_ih[1][1] = -1, !.biases_h[1] = 1,
                       !.weights_ho[1][2] = 1]

\* steers by the bearing of the nearest food item
SeekerGenome ==
    [ZeroGenome EXCEPT !.weights_ih[3][2] = 1, !.weights_ho[2][1] = 1]

GenomePool ==
    {ZeroGenome, TurnerGenome, BursterGenome, HungryGenome, SeekerGenome}

Headings == {0, 90, 180, 270}

AllGenesLow == Genes(NN_HIDDEN_NODES)

\* The fields of rnd:
\*   food_spots      positions random.randint can draw for a food item
\*   obstacle_spots  corners random.randint can draw for an obstacle
\*   initial         draws of Creature(obstacles_ref=obstacles)
\*   offspring       draws of reproduce
LoopRandom ==
    [food_spots |-> {<<15, 20>>},
     obstacle_spots |-> {<<20, 23>>, <<13, 26>>},
     initial |-> [tried : {<<15, 15>>, <<5, 5>>}, fallback : {<<5, 5>>},
                  color : {<<50, 200, 120>>}, direction : {90, 0},
                  genome : {ZeroGenome, BursterGenome}],
     offspring |-> [low : {{}, AllGenesLow}, sign : {1}, fresh : {0},
                    first : {<<0, 0>>}, retry : {<<-25, 0>>},
                    fallback : {<<5, 5>>}, direction : {90}]]

NoObservation == [op |-> "none"]

-----------------------------------------------------------------------------
(* main.py: state after start-up, lines 63-74 and 136-140 *)

\* a run without genome storage under observation
NoStorage == [objects |-> <<>>, owners |-> <<>>]

\* a run of the simulation alone, without the control panel
NoPanel == [window |-> "absent"]

InitWith(configs, randoms) ==
    /\ cfg \in configs
    /\ rnd \in randoms
    /\ obstacles \in initialize_obstacles(NUM_OBSTACLES, rnd.obstacle_spots, OBSTACLE_SIZE, MIN_SPAWN_DISTANCE_FROM_OBSTACLE, <<>>, <<>>)
    /\ creatures \in initial_populations(INITIAL_CREATURE_COUNT, 0, obstacles)
    /\ food_items = <<>>
    /\ food_eaten_count = 0
    /\ food_eaten_this_generation = 0
    /\ current_generation = 0
    /\ frame_count_this_generation = 0
    /\ total_bursts_activated_gen = 0
    /\ total_burst_energy_spent_gen = 0
    /\ pc = "frame"
    /\ idx = 0
    /\ log_rows = <<>>
    /\ last = NoObservation
    /\ heap = NoStorage
    /\ gui = NoPanel

-----------------------------------------------------------------------------
(* main.py: one iteration of the main loop, lines 213-341 *)

\* the end-of-generation test one frame late
generation_ends_late(frames, food_eaten) ==
    frames > GENERATION_LENGTH_FRAMES \/ food_eaten >= FOOD_LIMIT_PER_GENERATION

\* lines 214-218: the frame counter and the end-of-generation test
generation_ends(frames, food_eaten) ==
    frames >= GENERATION_LENGTH_FRAMES \/ food_eaten >= FOOD_LIMIT_PER_GENERATION

\* pygame: the type of a key-press event and the key code of the R key
KEYDOWN == 768
K_r == 114

\* the event pygame.event.get() delivers when the user presses R
Events == {[type |-> KEYDOWN, key |-> K_r]}

\* lines 176-210: the restart
Restart ==
    /\ \E obs \in initialize_obstacles(NUM_OBSTACLES, rnd.obstacle_spots, OBSTACLE_SIZE, MIN_SPAWN_DISTANCE_FROM_OBSTACLE, <<>>, <<>>) :
          /\ obstacles' = obs
          /\ creatures' \in initial_populations(INITIAL_CREATURE_COUNT, 0, obs)
    /\ food_items' = <<>>
    /\ food_eaten_count' = 0
    /\ food_eaten_this_generation' = 0
    /\ current_generation' = 0
    /\ frame_count_this_generation' = 0
    /\ total_bursts_activated_gen' = 0
    /\ total_burst_energy_spent_gen' = 0
    /\ log_rows' = <<>>

\* lines 172-210: one event of the event loop at the top of a frame (QUIT,
\* which ends the program, is not among the events drawn)
KeyDown ==
    /\ pc = "frame"
    /\ \E event \in Events :
          /\ IF event.type = K_r
             THEN Restart
             ELSE UNCHANGED <<creatures, food_items, obstacles, food_eaten_count,
                              food_eaten_this_generation, current_generation,
                              frame_count_this_generation,
                              total_bursts_activated_gen,
                              total_burst_energy_spent_gen, log_rows>>
          /\ last' = [op |-> "event", event |-> event]
    /\ UNCHANGED <<cfg, rnd, heap, gui, pc, idx>>

FrameStart ==
    /\ pc = "frame"
    /\ current_generation < MaxGenerations
    /\ frame_count_this_generation' = frame_count_this_generation + 1
    /\ pc' = IF generation_ends(frame_count_this_generation + 1, food_eaten_this_generation)
             THEN "generation" ELSE "food"
    /\ last' = NoObservation
    /\ UNCHANGED <<cfg, rnd, heap, gui, log_rows, creatures, food_items, obstacles, food_eaten_count,
                   food_eaten_this_generation, current_generation,
                   total_bursts_activated_gen, total_burst_energy_spent_gen, idx>>

\* lines 261-262: random.choice(survivors) and the draws of its reproduce
parent_draws(parents, obstacles_ref) ==
    {pd \in (DOMAIN parents) \X rnd.offspring :
        offspring_possible(parents[pd[1]], pd[2], rnd.offspring, obstacles_ref)}

\* one offspring per surviving parent instead of a full population
next_populations_per_parent(parents, born) ==
    IF parents = <<>>
    THEN initial_populations(INITIAL_CREATURE_COUNT, born, obstacles)
    ELSE {[k \in 1..Len(parents) |->
            reproduce(parents[pd[k][1]], pd[k][2], k, born, MUTATION_CHANCE, NN_MUTATION_AMOUNT, COLOR_MUTATION_AMOUNT, NN_HIDDEN_NODES, obstacles)] :
            pd \in [1..Len(parents) -> parent_draws(parents, obstacles)]}

\* no re-seeding: without parents the next population is empty
next_populations_no_reseed(parents, born) ==
    IF parents = <<>>
    THEN {<<>>}
    ELSE {[k \in 1..INITIAL_CREATURE_COUNT |->
            reproduce(parents[pd[k][1]], pd[k][2], k, born, MUTATION_CHANCE, NN_MUTATION_AMOUNT, COLOR_MUTATION_AMOUNT, NN_HIDDEN_NODES, obstacles)] :
            pd \in [1..INITIAL_CREATURE_COUNT -> parent_draws(parents, obstacles)]}

\* the best parent carried over into the next population
next_populations_carry_parent(parents, born) ==
    IF parents = <<>>
    THEN initial_populations(INITIAL_CREATURE_COUNT, born, obstacles)
    ELSE {[k \in 1..INITIAL_CREATURE_COUNT |->
            IF k = 1 THEN parents[1]
            ELSE reproduce(parents[pd[k][1]], pd[k][2], k, born, MUTATION_CHANCE, NN_MUTATION_AMOUNT, COLOR_MUTATION_AMOUNT, NN_HIDDEN_NODES, obstacles)] :
            pd \in [1..INITIAL_CREATURE_COUNT -> parent_draws(parents, obstacles)]}

\* lines 254-266: the populations the reproduction step can produce
next_populations(parents, born) ==
    IF parents = <<>>
    THEN initial_populations(INITIAL_CREATURE_COUNT, born, obstacles)
    ELSE {[k \in 1..INITIAL_CREATURE_COUNT |->
            reproduce(parents[pd[k][1]], pd[k][2], k, born, MUTATION_CHANCE, NN_MUTATION_AMOUNT, COLOR_MUTATION_AMOUNT, NN_HIDDEN_NODES, obstacles)] :
            pd \in [1..INITIAL_CREATURE_COUNT -> parent_draws(parents, obstacles)]}

\* the row written with the generation index one too high
log_row_next(generation, creature_list) ==
    LET survivors_for_log_list == survivors(creature_list)
    IN [Generation |-> generation + 1,
        Food_Eaten_Gen |-> food_eaten_this_generation,
        Top_Creature_Food_Eaten |->
            IF living_creatures_for_selection(creature_list) = <<>> THEN 0
            ELSE living_creatures_for_selection(creature_list)[1].food_eaten_individual,
        Num_Survivors |-> Len(survivors_for_log_list),
        Population_Size_Start_Gen |-> Len(creature_list),
        Avg_Survivor_Energy |->
            IF survivors_for_log_list = <<>> THEN 0
            ELSE RoundDiv(SeqSum([i \in DOMAIN survivors_for_log_list |-> survivors_for_log_list[i].energy]), Len(survivors_for_log_list)),
        Total_Bursts_Activated_Gen |-> total_bursts_activated_gen,
        Total_Burst_Energy_Spent_Gen |-> total_burst_energy_spent_gen,
        Frames_This_Gen |-> frame_count_this_generation]

\* lines 221-241: the record of the generation that ends
log_row(generation, creature_list) ==
    LET survivors_for_log_list == survivors(creature_list)
    IN [Generation |-> generation,
        Food_Eaten_Gen |-> food_eaten_this_generation,
        Top_Creature_Food_Eaten |->
            IF living_creatures_for_selection(creature_list) = <<>> THEN 0
            ELSE living_creatures_for_selection(creature_list)[1].food_eaten_individual,
        Num_Survivors |-> Len(survivors_for_log_list),
        Population_Size_Start_Gen |-> Len(creature_list),
        Avg_Survivor_Energy |->
            IF survivors_for_log_list = <<>> THEN 0
            ELSE RoundDiv(SeqSum([i \in DOMAIN survivors_for_log_list |-> survivors_for_log_list[i].energy]), Len(survivors_for_log_list)),
        Total_Bursts_Activated_Gen |-> total_bursts_activated_gen,
        Total_Burst_Energy_Spent_Gen |-> total_burst_energy_spent_gen,
        Frames_This_Gen |-> frame_count_this_generation]

\* the generation boundary without the clearing of the food list
GenerationEnd_keeps_food ==
    /\ pc = "generation"
    /\ \E new \in next_populations(survivors(creatures), current_generation + 1) :
          /\ creatures' = new
          /\ IF \/ initialize_obstacles(NUM_OBSTACLES, rnd.obstacle_spots, OBSTACLE_SIZE, MIN_SPAWN_DISTANCE_FROM_OBSTACLE, new, <<>>) # {}
                \/ placement_possible(NUM_OBSTACLES, OBSTACLE_SIZE, MIN_SPAWN_DISTANCE_FROM_OBSTACLE, new, <<>>)
             THEN /\ obstacles' \in initialize_obstacles(NUM_OBSTACLES, rnd.obstacle_spots, OBSTACLE_SIZE, MIN_SPAWN_DISTANCE_FROM_OBSTACLE, new, <<>>)
                  /\ food_eaten_this_generation' = 0
                  /\ total_bursts_activated_gen' = 0
                  /\ total_burst_energy_spent_gen' = 0
                  /\ pc' = "food"
             ELSE \* line 273 does not return: lines 282-290 are never reached
                  /\ obstacles' = <<>>
                  /\ pc' = "initialize_obstacles"
                  /\ UNCHANGED <<food_eaten_this_generation, total_bursts_activated_gen, total_burst_energy_spent_gen>>
    /\ log_rows' = IF LOG_ENABLED
                   THEN Append(log_rows, log_row(current_generation, creatures))
                   ELSE log_rows
    /\ last' = [op |-> "generation", parents |-> survivors(creatures),
                population |-> creatures,
                before |-> [food_items |-> food_items,
                            food_eaten_count |-> food_eaten_count,
                            food_eaten_this_generation |-> food_eaten_this_generation,
                            current_generation |-> current_generation,
                            frame_count_this_generation |-> frame_count_this_generation,
                            total_bursts_activated_gen |-> total_bursts_activated_gen,
                            total_burst_energy_spent_gen |-> total_burst_energy_spent_gen]]
    /\ current_generation' = current_generation + 1
    /\ frame_count_this_generation' = 0
    /\ food_items' = food_items
    /\ UNCHANGED <<cfg, rnd, heap, gui, food_eaten_count, idx>>

\* lines 219-290: the log record, selection, reproduction, new obstacles,
\* counters
GenerationEnd ==
    /\ pc = "generation"
    /\ \E new \in next_populations(survivors(creatures), current_generation + 1) :
          /\ creatures' = new
          /\ IF \/ initialize_obstacles(NUM_OBSTACLES, rnd.obstacle_spots, OBSTACLE_SIZE, MIN_SPAWN_DISTANCE_FROM_OBSTACLE, new, <<>>) # {}
                \/ placement_possible(NUM_OBSTACLES, OBSTACLE_SIZE, MIN_SPAWN_DISTANCE_FROM_OBSTACLE, new, <<>>)
             THEN /\ obstacles' \in initialize_obstacles(NUM_OBSTACLES, rnd.obstacle_spots, OBSTACLE_SIZE, MIN_SPAWN_DISTANCE_FROM_OBSTACLE, new, <<>>)
                  /\ food_eaten_this_generation' = 0
                  /\ total_bursts_activated_gen' = 0
                  /\ total_burst_energy_spent_gen' = 0
                  /\ pc' = "food"
             ELSE \* line 273 does not return: lines 282-290 are never reached
                  /\ obstacles' = <<>>
                  /\ pc' = "initialize_obstacles"
                  /\ UNCHANGED <<food_eaten_this_generation, total_bursts_activated_gen, total_burst_energy_spent_gen>>
    /\ log_rows' = IF LOG_ENABLED
                   THEN Append(log_rows, log_row(current_generation, creatures))
                   ELSE log_rows
    /\ last' = [op |-> "generation", parents |-> survivors(creatures),
                population |-> creatures,
                before |-> [food_items |-> food_items,
                            food_eaten_count |-> food_eaten_count,
                            food_eaten_this_generation |-> food_eaten_this_generation,
                            current_generation |-> current_generation,
                            frame_count_this_generation |-> frame_count_this_generation,
                            total_bursts_activated_gen |-> total_bursts_activated_gen,
                            total_burst_energy_spent_gen |-> total_burst_energy_spent_gen]]
    /\ current_generation' = current_generation + 1
    /\ frame_count_this_generation' = 0
    /\ food_items' = <<>>
    /\ UNCHANGED <<cfg, rnd, heap, gui, food_eaten_count, idx>>

\* the food spawn without the test of the cap
SpawnFood_uncapped ==
    /\ pc = "food"
    /\ \/ UNCHANGED food_items
       \/ /\ TRUE
          /\ \E p \in rnd.food_spots :
                food_items' = Append(food_items, [x |-> p[1], y |-> p[2]])
    /\ pc' = "update"
    /\ idx' = 1
    /\ last' = NoObservation
    /\ UNCHANGED <<cfg, rnd, heap, gui, log_rows, creatures, obstacles, food_eaten_count,
                   food_eaten_this_generation, current_generation,
                   frame_count_this_generation, total_bursts_activated_gen,
                   total_burst_energy_spent_gen>>

\* lines 293-296: at most one new food item
SpawnFood ==
    /\ pc = "food"
    /\ \/ UNCHANGED food_items
       \/ /\ Len(food_items) < MAX_FOOD_COUNT
          /\ \E p \in rnd.food_spots :
                food_items' = Append(food_items, [x |-> p[1], y |-> p[2]])
    /\ pc' = "update"
    /\ idx' = 1
    /\ last' = NoObservation
    /\ UNCHANGED <<cfg, rnd, heap, gui, log_rows, creatures, obstacles, food_eaten_count,
                   food_eaten_this_generation, current_generation,
                   frame_count_this_generation, total_bursts_activated_gen,
                   total_burst_energy_spent_gen>>

\* eaten food left in the world
remove_eaten_kept(list, eaten, k) == list

\* lines 305-307: "for food in eaten: food_items.remove(food)"
RECURSIVE remove_eaten(_, _, _)
remove_eaten(list, eaten, k) ==
    IF k > Len(list) THEN <<>>
    ELSE (IF k \in eaten THEN <<>> ELSE <<list[k]>>) \o remove_eaten(list, eaten, k + 1)

\* the dying flag without the fade
update_dying_no_fade(c) ==
    IF c.energy <= 0 /\ ~c.is_dying
    THEN [c EXCEPT !.is_dying = TRUE, !.speed = 0] ELSE c

\* lines 311-318: the dying flag and the fade after move and eat_food
update_dying(c) ==
    LET c1 == IF c.energy <= 0 /\ ~c.is_dying
              THEN [c EXCEPT !.is_dying = TRUE, !.speed = 0] ELSE c
    IN IF c1.is_dying THEN [c1 EXCEPT !.fade_alpha = @ - 5] ELSE c1

\* lines 301-318: the update of one creature
UpdateCreature ==
    /\ pc = "update"
    /\ idx <= Len(creatures)
    /\ LET self == creatures[idx]
           mid == move_before_decay(self, food_items, obstacles, creatures)
           moved == move_decay(mid)
           eaten == eaten_food(moved, food_items)
           fed == eat_food(moved, food_items)
           done == update_dying(fed)
       IN /\ creatures' = [creatures EXCEPT ![idx] = done]
          /\ food_items' = remove_eaten(food_items, eaten, 1)
          /\ food_eaten_count' = food_eaten_count + Cardinality(eaten)
          /\ food_eaten_this_generation' = food_eaten_this_generation + Cardinality(eaten)
          /\ last' = [op |-> "update", pre |-> self, mid |-> mid,
                      moved |-> moved, post |-> done,
                      eaten |-> Cardinality(eaten),
                      sensed |-> Len(get_sensor_data(self, food_items, creatures, obstacles)),
                      raised |-> think_raises(self, get_sensor_data(self, food_items, creatures, obstacles)),
                      steps |-> move_steps(self, food_items, obstacles, creatures),
                      out |-> think(self, get_sensor_data(self, food_items, creatures, obstacles))]
    /\ idx' = idx + 1
    /\ UNCHANGED <<cfg, rnd, heap, gui, log_rows, obstacles, current_generation, frame_count_this_generation,
                   total_bursts_activated_gen, total_burst_energy_spent_gen, pc>>

\* lines 320-326: creatures that have faded out leave the population
RemoveFaded ==
    /\ pc = "update"
    /\ idx > Len(creatures)
    /\ LET gone == SelectSeq(creatures, LAMBDA c : c.is_dying /\ c.fade_alpha <= 0)
       IN /\ creatures' = SelectSeq(creatures, LAMBDA c : ~(c.is_dying /\ c.fade_alpha <= 0))
          /\ total_bursts_activated_gen' = total_bursts_activated_gen
                + SeqSum([k \in DOMAIN gone |-> gone[k].bursts_activated_individual])
          /\ total_burst_energy_spent_gen' = total_burst_energy_spent_gen
                + SeqSum([k \in DOMAIN gone |-> gone[k].burst_energy_spent_individual])
    /\ pc' = "draw"
    /\ idx' = 1
    /\ last' = NoObservation
    /\ UNCHANGED <<cfg, rnd, heap, gui, log_rows, food_items, obstacles, food_eaten_count,
                   food_eaten_this_generation, current_generation,
                   frame_count_this_generation>>

\* lines 338-341: the drawing pass moves every creature that is not dying
DrawCreature ==
    /\ pc = "draw"
    /\ idx <= Len(creatures)
    /\ LET self == creatures[idx]
           mid == move_before_decay(self, food_items, obstacles, creatures)
           moved == move_decay(mid)
       IN IF self.is_dying
          THEN /\ UNCHANGED creatures
               /\ last' = NoObservation
          ELSE /\ creatures' = [creatures EXCEPT ![idx] = moved]
               /\ last' = [op |-> "draw", pre |-> self, mid |-> mid,
                           moved |-> moved, post |-> moved,
                           sensed |-> Len(get_sensor_data(self, food_items, creatures, obstacles)),
                           raised |-> think_raises(self, get_sensor_data(self, food_items, creatures, obstacles)),
                           steps |-> move_steps(self, food_items, obstacles, creatures),
                           out |-> think(self, get_sensor_data(self, food_items, creatures, obstacles))]
    /\ idx' = idx + 1
    /\ UNCHANGED <<cfg, rnd, heap, gui, log_rows, food_items, obstacles, food_eaten_count,
                   food_eaten_this_generation, current_generation,
                   frame_count_this_generation, total_bursts_activated_gen,
                   total_burst_energy_spent_gen, pc>>

\* lines 343-364: the frame is displayed and the loop starts over
FrameEnd ==
    /\ pc = "draw"
    /\ idx > Len(creatures)
    /\ pc' = "frame"
    /\ idx' = 0
    /\ last' = NoObservation
    /\ UNCHANGED <<cfg, rnd, heap, gui, log_rows, creatures, food_items, obstacles, food_eaten_count,
                   food_eaten_this_generation, current_generation,
                   frame_count_this_generation, total_bursts_activated_gen,
                   total_burst_energy_spent_gen>>

-----------------------------------------------------------------------------
(* Configurations and specifications. *)

DefaultConfig ==
    [WIDTH |-> 30, HEIGHT |-> 30, INITIAL_CREATURE_COUNT |-> 2,
     CREATURE_ENERGY_DECAY |-> 10, FOOD_ENERGY_GAIN |-> 20,
     MAX_FOOD_COUNT |-> 1, MUTATION_CHANCE |-> 2, NN_MUTATION_AMOUNT |-> 1,
     COLOR_MUTATION_AMOUNT |-> 30, GENERATION_LENGTH_FRAMES |-> 3,
     SELECTION_PERCENTAGE |-> 30, CREATURE_MAX_ENERGY |-> 30,
     FOOD_LIMIT_PER_GENERATION |-> 1, CREATURE_BASE_SPEED |-> 5,
     MAX_TURN_ANGLE |-> 90, OBSTACLE_PENALTY |-> 5,
     COLLISION_PENALTY_BREEDING |-> 10, BURST_FITNESS_BONUS |-> 5,
     MIN_SPAWN_DISTANCE_FROM_OBSTACLE |-> 2, NUM_OBSTACLES |-> 1,
     OBSTACLE_SIZE |-> 4, LOG_ENABLED |-> FALSE]

\* no decay and no food: a creature dies only of its burst, and a dead
\* creature has faded out before the generation ends
LongConfig ==
    [DefaultConfig EXCEPT !.CREATURE_ENERGY_DECAY = 0,
                          !.CREATURE_MAX_ENERGY = 10,
                          !.MAX_FOOD_COUNT = 0,
                          !.GENERATION_LENGTH_FRAMES = 52]

LoopConfigs == {DefaultConfig}

Init == InitWith(LoopConfigs, {LoopRandom})

\* one creature, four frames per generation
SoloConfig ==
    [DefaultConfig EXCEPT !.INITIAL_CREATURE_COUNT = 1,
                          !.GENERATION_LENGTH_FRAMES = 4]

SoloRandom ==
    [food_spots |-> {<<15, 20>>, <<3, 3>>},
     obstacle_spots |-> {<<13, 26>>, <<2, 8>>},
     initial |-> [tried : {<<15, 15>>, <<5, 5>>}, fallback : {<<5, 5>>},
                  color : {<<50, 200, 120>>}, direction : Headings,
                  genome : GenomePool],
     offspring |-> [low : {{}, AllGenesLow}, sign : {1}, fresh : {0},
                    first : {<<0, 0>>, <<-10, 0>>}, retry : {<<-25, 0>>},
                    fallback : {<<5, 5>>}, direction : {90, 0}]]

InitSolo == InitWith({SoloConfig}, {SoloRandom})

Next ==
    \/ KeyDown
    \/ FrameStart
    \/ GenerationEnd
    \/ SpawnFood
    \/ UpdateCreature
    \/ RemoveFaded
    \/ DrawCreature
    \/ FrameEnd

Spec == Init /\ [][Next]_vars

SpecSolo == InitSolo /\ [][Next]_vars

\* the long generations: two creatures that burst or never do
LongRandom ==
    [food_spots |-> {<<15, 20>>},
     obstacle_spots |-> {<<20, 23>>, <<13, 26>>},
     initial |-> [tried : {<<15, 15>>}, fallback : {<<5, 5>>},
                  color : {<<50, 200, 120>>}, direction : {90},
                  genome : {ZeroGenome, BursterGenome}],
     offspring |-> [low : {{}, AllGenesLow}, sign : {1}, fresh : {0},
                    first : {<<0, 0>>}, retry : {<<-25, 0>>},
                    fallback : {<<5, 5>>}, direction : {90}]]

InitLong == InitWith({LongConfig}, {LongRandom})

SpecLong == InitLong /\ [][Next]_vars

\* no decay and generations of two frames: a creature that bursts is still
\* alive at the boundary
RankConfig ==
    [DefaultConfig EXCEPT !.CREATURE_ENERGY_DECAY = 0,
                          !.GENERATION_LENGTH_FRAMES = 2]

InitRank == InitWith({RankConfig}, {LoopRandom})

SpecRank == InitRank /\ [][Next]_vars

\* logging enabled
LogConfig == [DefaultConfig EXCEPT !.LOG_ENABLED = TRUE]

InitLog == InitWith({LogConfig}, {LoopRandom})

SpecLog == InitLog /\ [][Next]_vars

\* offspring placed left of its parent and heading towards y = 0
HeadingRandom ==
    [LoopRandom EXCEPT !.offspring =
        [low : {{}, AllGenesLow}, sign : {1}, fresh : {0},
         first : {<<0, 0>>, <<-10, 0>>}, retry : {<<-25, 0>>},
         fallback : {<<5, 5>>}, direction : {270, 0}]]

InitHeading == InitWith({SoloConfig}, {HeadingRandom})

SpecHeading == InitHeading /\ [][Next]_vars

\* a wide keep-out distance between obstacles and creatures
CrowdedConfig ==
    [DefaultConfig EXCEPT !.MIN_SPAWN_DISTANCE_FROM_OBSTACLE = 25]

InitCrowded == InitWith({CrowdedConfig}, {LoopRandom})

SpecCrowded == InitCrowded /\ [][Next]_vars

\* constants.py lines 54-118: argparse converts every argument with type=int
\* or type=float and the values are assigned as parsed; no range is tested,
\* so these command lines start the program like any other:
\* --selection_percentage 1.5, --creature_energy_decay -10,
\* --creature_max_energy -30, --food_energy_gain -20
OutOfRangeConfigs ==
    {[DefaultConfig EXCEPT !.SELECTION_PERCENTAGE = 150],
     [DefaultConfig EXCEPT !.CREATURE_ENERGY_DECAY = -10],
     [DefaultConfig EXCEPT !.CREATURE_MAX_ENERGY = -30],
     [DefaultConfig EXCEPT !.FOOD_ENERGY_GAIN = -20]}

InitOutOfRange == InitWith(OutOfRangeConfigs, {LongRandom})

SpecOutOfRange == InitOutOfRange /\ [][Next]_vars

\* three creatures of which the top 70 percent breed
SelectConfig ==
    [DefaultConfig EXCEPT !.INITIAL_CREATURE_COUNT = 3,
                          !.SELECTION_PERCENTAGE = 70]

InitSelect == InitWith({SelectConfig}, {LongRandom})

SpecSelect == InitSelect /\ [][Next]_vars

\* room for two food items, and two places where food appears
FoodConfig ==
    [DefaultConfig EXCEPT !.MAX_FOOD_COUNT = 2,
                          !.FOOD_LIMIT_PER_GENERATION = 2]

FoodRandom ==
    [LongRandom EXCEPT !.food_spots = {<<15, 20>>, <<15, 25>>}]

InitFood == InitWith({FoodConfig}, {FoodRandom})

SpecFood == InitFood /\ [][Next]_vars

\* two obstacles that a creature heading up from (15, 10) runs into at once
CollideConfig ==
    [SoloConfig EXCEPT !.NUM_OBSTACLES = 2]

CollideRandom ==
    [LongRandom EXCEPT !.obstacle_spots = {<<9, 17>>, <<17, 17>>, <<15, 14>>, <<24, 2>>},
                       !.initial = [tried : {<<15, 10>>},
                                    fallback : {<<5, 5>>},
                                    color : {<<50, 200, 120>>},
                                    direction : {90, 0},
                                    genome : {ZeroGenome, BursterGenome}]]

InitCollide == InitWith({CollideConfig}, {CollideRandom})

SpecCollide == InitCollide /\ [][Next]_vars

-----------------------------------------------------------------------------
(* reproduce and calculate_fitness applied to one creature at a time *)

\* largest value of a lifetime counter of the creature the functions get
MaxCount == 2

CloneConfig == [DefaultConfig EXCEPT !.MUTATION_CHANCE = 0]

UnitConfigs == {DefaultConfig, CloneConfig}

UnitRandom ==
    [food_spots |-> {<<15, 20>>},
     obstacle_spots |-> {<<13, 26>>},
     initial |-> [tried : {<<15, 15>>}, fallback : {<<5, 5>>},
                  color : {<<50, 200, 120>>, <<0, 255, 10>>}, direction : {90},
                  genome : {ZeroGenome, HungryGenome, SeekerGenome}],
     offspring |-> [low : {{}, AllGenesLow, GenesO, ColorGenes}, sign : {1, -1},
                    fresh : {0}, first : {<<0, 0>>, <<5, -5>>},
                    retry : {<<-25, 0>>}, fallback : {<<5, 5>>},
                    direction : {90}]]

InitUnit ==
    /\ cfg \in UnitConfigs
    /\ rnd = UnitRandom
    /\ obstacles \in initialize_obstacles(NUM_OBSTACLES, rnd.obstacle_spots, OBSTACLE_SIZE, MIN_SPAWN_DISTANCE_FROM_OBSTACLE, <<>>, <<>>)
    /\ \E p \in initial_populations(1, 0, obstacles), dying \in BOOLEAN,
          f \in 0..MaxCount, c \in 0..MaxCount, b \in 0..MaxCount :
          creatures = <<[p[1] EXCEPT !.food_eaten_individual = f,
                                    !.collisions_individual = c,
                                    !.bursts_activated_individual = b,
                                    !.burst_energy_spent_individual = b * BURST_ENERGY_COST,
                                    !.is_dying = dying,
                                    !.energy = IF dying THEN 0 ELSE @]>>
    /\ food_items = <<>>
    /\ food_eaten_count = 0
    /\ food_eaten_this_generation = 0
    /\ current_generation = 0
    /\ frame_count_this_generation = 0
    /\ total_bursts_activated_gen = 0
    /\ total_burst_energy_spent_gen = 0
    /\ pc = "unit"
    /\ idx = 1
    /\ log_rows = <<>>
    /\ last = NoObservation
    /\ heap = NoStorage
    /\ gui = NoPanel

\* creatures.py lines 530-631: one call of reproduce on the creature
CallReproduce ==
    /\ pc = "unit"
    /\ pc' = "returned"
    /\ \E d \in rnd.offspring :
          /\ offspring_possible(creatures[idx], d, rnd.offspring, obstacles)
          /\ last' = [op |-> "reproduce", parent |-> creatures[idx], draw |-> d,
                      mutation_chance |-> MUTATION_CHANCE,
                      offspring |-> reproduce(creatures[idx], d, 2, 1, MUTATION_CHANCE, NN_MUTATION_AMOUNT, COLOR_MUTATION_AMOUNT, NN_HIDDEN_NODES, obstacles)]
    /\ UNCHANGED <<cfg, rnd, heap, gui, log_rows, creatures, food_items, obstacles, food_eaten_count,
                   food_eaten_this_generation, current_generation,
                   frame_count_this_generation, total_bursts_activated_gen,
                   total_burst_energy_spent_gen, idx>>

\* creatures.py lines 520-528: one call of calculate_fitness on the creature
CallFitness ==
    /\ pc = "unit"
    /\ pc' = "returned"
    /\ last' = [op |-> "fitness", self |-> creatures[idx],
                fitness |-> calculate_fitness(creatures[idx])]
    /\ UNCHANGED <<cfg, rnd, heap, gui, log_rows, creatures, food_items, obstacles, food_eaten_count,
                   food_eaten_this_generation, current_generation,
                   frame_count_this_generation, total_bursts_activated_gen,
                   total_burst_energy_spent_gen, idx>>

NextUnit ==
    \/ CallReproduce
    \/ CallFitness

SpecUnit == InitUnit /\ [][NextUnit]_vars

-----------------------------------------------------------------------------
(* Observations used by the properties. *)

\* the last operation was a move of a creature (update pass or draw pass)
Moved == last.op \in {"update", "draw"}

\* that move hit an obstacle
Collided == Moved /\ last.mid.collisions_individual = last.pre.collisions_individual + 1

\* that move started a burst
BurstStarted == Moved /\ last.mid.bursts_activated_individual = last.pre.bursts_activated_individual + 1

\* the last operation was a generation boundary with at least one parent
Bred == last.op = "generation" /\ last.parents # <<>>

-----------------------------------------------------------------------------
(* Properties. *)

\* C1: after any per-frame update of a creature its energy satisfies
\* 0 <= energy <= CREATURE_MAX_ENERGY.
C1_EnergyInRange ==
    \A k \in DOMAIN creatures :
        0 <= creatures[k].energy /\ creatures[k].energy <= CREATURE_MAX_ENERGY

\* C2: if the population is a single creature with energy 0 at the start of
\* a frame, the generation ends in that frame: the loop never gets past the
\* end-of-generation test of a frame with such a population.
C2_LoneDeadCreatureEndsGeneration ==
    (pc = "food" /\ last.op # "generation")
        => ~(Len(creatures) = 1 /\ creatures[1].energy = 0)

\* C3: when food_eaten_this_generation reaches FOOD_LIMIT_PER_GENERATION
\* during a frame, the generation boundary is performed in that frame, so no
\* frame ends with the counter at or above the limit.
C3_FoodLimitEndsGenerationInFrame ==
    pc = "frame" => food_eaten_this_generation < FOOD_LIMIT_PER_GENERATION

\* C4: a generation boundary with at least one breeding parent produces a
\* population of exactly INITIAL_CREATURE_COUNT creatures.
C4_BreedingFillsPopulation ==
    Bred => Len(creatures) = INITIAL_CREATURE_COUNT

\* C4 witness: a boundary with a parent whose population had lost a creature
\* and still held a dying one or a living one.
C4_Witness ==
    /\ Bred
    /\ Len(last.population) < INITIAL_CREATURE_COUNT
    /\ Len(creatures) = INITIAL_CREATURE_COUNT

\* C6: a creature whose proposed move collides with an obstacle does not end
\* the move inside any obstacle: its centre is at least its radius away from
\* every obstacle rectangle.
C6_CollidedEndsOutsideObstacle ==
    Collided =>
        \A k \in DOMAIN obstacles :
            RectDistSq(last.moved.x, last.moved.y, obstacles[k]) >= Sq(CREATURE_RADIUS)

\* C8: a creature that is not bursting, whose burst output exceeds the
\* threshold and whose energy equals BURST_ENERGY_COST starts a burst in
\* that move, and its energy is 0 just before the energy decay.
C8_BurstAtExactCost ==
    (/\ Moved
     /\ ~last.pre.is_bursting
     /\ 10 * last.out[2] > BURST_NN_THRESHOLD
     /\ last.pre.energy = BURST_ENERGY_COST)
        => /\ BurstStarted
           /\ last.mid.energy = 0

C8_Witness ==
    /\ Moved
    /\ ~last.pre.is_bursting
    /\ 10 * last.out[2] > BURST_NN_THRESHOLD
    /\ last.pre.energy = BURST_ENERGY_COST
    /\ BurstStarted
    /\ last.mid.energy = 0

\* C5: the sensor vector of every creature has the length it has in an
\* empty world, and that length is the network's input size NN_INPUT_NODES.
C5_SensorLengthFixed ==
    \A k \in DOMAIN creatures :
        LET n == Len(get_sensor_data(creatures[k], food_items, creatures, obstacles))
        IN /\ n = Len(get_sensor_data(creatures[k], <<>>, <<creatures[k]>>, <<>>))
           /\ n = NN_INPUT_NODES

\* the genes of a creature: its color and its four network parameter arrays
genes(c) == <<c.color, c.weights_ih, c.biases_h, c.weights_ho, c.biases_o>>

\* C7: with mutation_chance = 0 the offspring returned by reproduce has the
\* parent's color and the parent's network parameters, gene for gene.
C7_NoMutationClonesGenes ==
    (last.op = "reproduce" /\ last.mutation_chance = 0)
        => genes(last.offspring) = genes(last.parent)

\* C7 witness: a reproduce with mutation_chance = 0 in which random() gave
\* its smallest value, 0, for every gene, and the offspring is placed
\* elsewhere than the parent.
C7_Witness ==
    /\ last.op = "reproduce"
    /\ last.mutation_chance = 0
    /\ last.draw.low = AllGenesLow
    /\ genes(last.offspring) = genes(last.parent)
    /\ <<last.offspring.x, last.offspring.y>> # <<last.parent.x, last.parent.y>>

\* the weighted sum of the lifetime counters of a creature
raw_fitness(c) ==
    c.food_eaten_individual * FOOD_ENERGY_GAIN
    - c.collisions_individual * COLLISION_PENALTY_BREEDING
    + c.bursts_activated_individual * BURST_FITNESS_BONUS

\* C9: calculate_fitness returns the weighted sum of the counters when that
\* sum is positive and 0 otherwise, for a living and for a dying creature
\* alike, so it is never negative.
C9_FitnessIsClampedSum ==
    last.op = "fitness" =>
        /\ last.fitness >= 0
        /\ last.fitness = IF raw_fitness(last.self) > 0
                          THEN raw_fitness(last.self) ELSE 0

\* C9 witness: the fitness of a dying creature whose weighted sum is
\* negative.
C9_Witness ==
    /\ last.op = "fitness"
    /\ last.self.is_dying
    /\ raw_fitness(last.self) < 0
    /\ last.fitness = 0

\* C11: at a generation boundary every selected parent has a fitness at
\* least that of every non-dying creature that was not selected.
C11_ParentsHaveTopFitness ==
    last.op = "generation" =>
        \A i \in DOMAIN last.parents, k \in DOMAIN last.population :
            (/\ ~last.population[k].is_dying
             /\ last.population[k] \notin Range(last.parents))
                => calculate_fitness(last.parents[i])
                       >= calculate_fitness(last.population[k])

\* C17: with logging enabled the number of data rows written equals
\* current_generation, and the i-th row (counted from 0) carries
\* Generation = i.
C17_OneRowPerGeneration ==
    LOG_ENABLED =>
        /\ Len(log_rows) = current_generation
        /\ \A i \in DOMAIN log_rows : log_rows[i].Generation = i - 1

\* C17 witness: two generations have been completed and logged.
C17_Witness ==
    /\ LOG_ENABLED
    /\ current_generation = 2
    /\ Len(log_rows) = 2
    /\ log_rows[2].Generation = 1

\* a creature as create_initial_population or reproduce returns it
fresh(c) ==
    /\ c.energy = CREATURE_MAX_ENERGY
    /\ c.food_eaten_individual = 0
    /\ c.collisions_individual = 0
    /\ c.bursts_activated_individual = 0
    /\ c.burst_energy_spent_individual = 0
    /\ ~c.is_bursting
    /\ ~c.is_dying

\* C13: after the R key has been pressed the state is a fresh initial state:
\* generation, frame and food counters and burst totals are 0, the food list
\* is empty and the population is INITIAL_CREATURE_COUNT new creatures.
C13_RestartGivesFreshState ==
    (last.op = "event" /\ last.event = [type |-> KEYDOWN, key |-> K_r]) =>
        /\ current_generation = 0
        /\ frame_count_this_generation = 0
        /\ food_eaten_count = 0
        /\ food_eaten_this_generation = 0
        /\ total_bursts_activated_gen = 0
        /\ total_burst_energy_spent_gen = 0
        /\ food_items = <<>>
        /\ Len(creatures) = INITIAL_CREATURE_COUNT
        /\ \A k \in DOMAIN creatures : fresh(creatures[k]) /\ creatures[k].born = 0

\* what the per-creature update advances: position, heading, burst state
\* and energy
motion(c) ==
    <<c.x, c.y, c.direction, c.is_bursting, c.burst_frames_left, c.energy>>

\* C14: the drawing pass advances no creature: position, heading, burst
\* countdown and energy of a drawn creature are what the update pass left.
C14_DrawPassDoesNotMove ==
    last.op = "draw" => motion(last.post) = motion(last.pre)

\* C15: a creature that is dying after its move does not eat in that update:
\* its food_eaten counter and its energy do not increase and it removes no
\* food item from the world.
C15_DyingCreatureDoesNotEat ==
    (last.op = "update" /\ last.moved.is_dying) =>
        /\ last.post.food_eaten_individual = last.moved.food_eaten_individual
        /\ last.post.energy <= last.moved.energy
        /\ last.eaten = 0

\* C16: the heading of every creature lies in [0, 360).
C16_HeadingInRange ==
    \A k \in DOMAIN creatures :
        0 <= creatures[k].direction /\ creatures[k].direction < 360

\* C12: a generation boundary without breeding parents yields
\* INITIAL_CREATURE_COUNT freshly created creatures of the new generation,
\* and the main loop goes on with the frame.
C12_ExtinctionReseeds ==
    (last.op = "generation" /\ last.parents = <<>>) =>
        /\ Len(creatures) = INITIAL_CREATURE_COUNT
        /\ \A k \in DOMAIN creatures :
              fresh(creatures[k]) /\ creatures[k].born = current_generation
        /\ pc = "food"

\* C12 witness: a boundary reached with an empty population, after which the
\* population is full again.
C12_Witness ==
    /\ last.op = "generation"
    /\ last.parents = <<>>
    /\ last.population = <<>>
    /\ Len(creatures) = INITIAL_CREATURE_COUNT
    /\ pc = "food"


\* C18: the placement of the obstacles comes to an end: the program is never
\* inside initialize_obstacles without a corner it can accept.
C18_PlacementTerminates ==
    pc # "initialize_obstacles"

\* C19: with a selection percentage outside (0, 1] or a negative maximum
\* energy, energy decay or food gain the program stops at start-up: no frame
\* is begun and no operation of the main loop is carried out.
C19_OutOfRangeConfigurationRunsNoFrame ==
    (\/ SELECTION_PERCENTAGE <= 0
     \/ SELECTION_PERCENTAGE > 100
     \/ CREATURE_MAX_ENERGY < 0
     \/ CREATURE_ENERGY_DECAY < 0
     \/ FOOD_ENERGY_GAIN < 0) =>
        /\ frame_count_this_generation = 0
        /\ current_generation = 0
        /\ last = NoObservation

\* C20: a move whose sensor vector does not have NN_INPUT_NODES entries ends
\* with an error of think instead of a steering result.
C20_SensorLengthMismatchRaises ==
    (last.op \in {"update", "draw"} /\ last.sensed # NN_INPUT_NODES) =>
        last.raised

\* the creatures of a list that are not dying
alive(creature_list) ==
    SelectSeq(creature_list, LAMBDA c : ~c.is_dying)

\* C21: at a generation boundary with n creatures that are not dying the
\* number of breeding parents is max(1, floor(n * SELECTION_PERCENTAGE))
\* capped at n, and every parent is a creature of the population that is not
\* dying.
C21_NumberOfParents ==
    last.op = "generation" =>
        LET n == Len(alive(last.population))
        IN /\ Len(last.parents) = Min(n, Max(1, (n * SELECTION_PERCENTAGE) \div 100))
           /\ \A i \in DOMAIN last.parents :
                 /\ ~last.parents[i].is_dying
                 /\ last.parents[i] \in Range(last.population)

\* C21 witness: three creatures alive, one of them outside the top 70
\* percent, and the two parents chosen.
C21_Witness ==
    /\ last.op = "generation"
    /\ Len(alive(last.population)) = 3
    /\ Len(last.parents) = 2

\* C22: at a generation boundary whose population holds only dying creatures
\* the parents are taken from that population, so the next generation is bred
\* and not drawn at random.
C22_DyingPopulationStillBreeds ==
    (last.op = "generation" /\ last.population # <<>> /\ alive(last.population) = <<>>) =>
        /\ last.parents # <<>>
        /\ \A i \in DOMAIN last.parents : last.parents[i] \in Range(last.population)

\* C23: a completed generation boundary leaves no food in the world, sets the
\* frame counter, the food counter of the generation and the two burst totals
\* of the generation to 0, adds exactly 1 to current_generation and leaves
\* food_eaten_count as it was.
C23_BoundaryResetsCounters ==
    (last.op = "generation" /\ pc = "food") =>
        /\ food_items = <<>>
        /\ frame_count_this_generation = 0
        /\ food_eaten_this_generation = 0
        /\ total_bursts_activated_gen = 0
        /\ total_burst_energy_spent_gen = 0
        /\ current_generation = last.before.current_generation + 1
        /\ food_eaten_count = last.before.food_eaten_count

\* C23 witness: a boundary that found food in the world, food eaten in the
\* generation and frames counted, and left them cleared.
C23_Witness ==
    /\ last.op = "generation"
    /\ pc = "food"
    /\ last.before.food_items # <<>>
    /\ last.before.food_eaten_this_generation > 0
    /\ last.before.frame_count_this_generation > 0
    /\ food_eaten_count > 0
    /\ food_items = <<>>
    /\ food_eaten_this_generation = 0

\* C24: after a generation boundary every creature of the population was
\* created at that boundary and is in the state of a new creature: full
\* energy, the four lifetime counters at 0, not bursting, not dying.
C24_NewGenerationIsFresh ==
    (last.op = "generation" /\ pc = "food") =>
        \A k \in DOMAIN creatures :
            /\ creatures[k].born = current_generation
            /\ creatures[k] \notin Range(last.population)
            /\ fresh(creatures[k])

\* C24 witness: a boundary whose parents had eaten and spent energy, followed
\* by a full population.
C24_Witness ==
    /\ Bred
    /\ pc = "food"
    /\ \E i \in DOMAIN last.parents :
          /\ last.parents[i].food_eaten_individual > 0
          /\ last.parents[i].energy < CREATURE_MAX_ENERGY
    /\ Len(creatures) = INITIAL_CREATURE_COUNT

\* the obstacles that the position proposed by the last move overlaps
obstacles_hit ==
    {k \in DOMAIN obstacles :
        check_collision_with_obstacle(last.pre,
            last.pre.x + last.steps.turned.current_speed * DirX(last.steps.turned.direction),
            last.pre.y + last.steps.turned.current_speed * DirY(last.steps.turned.direction),
            obstacles[k])}

\* C25: a move whose proposed position overlaps an obstacle, or several, pays
\* the obstacle penalty once, counts one collision, turns the heading round
\* by 180 degrees once and leaves the creature, before the world boundary is
\* handled, where it was before the move.
C25_SingleCollisionPerMove ==
    (Moved /\ obstacles_hit # {}) =>
        /\ last.steps.hit.energy = Max(0, last.steps.turned.energy - OBSTACLE_PENALTY)
        /\ last.steps.hit.collisions_individual = last.pre.collisions_individual + 1
        /\ last.steps.hit.direction = (last.steps.turned.direction + 180) % 360
        /\ last.steps.hit.x = last.pre.x
        /\ last.steps.hit.y = last.pre.y

\* C25 witness: a move whose proposed position overlaps two obstacles.
C25_Witness ==
    /\ Moved
    /\ Cardinality(obstacles_hit) = 2
    /\ Collided

\* the burst fields of a creature that the trigger step may change
burst_account(c) ==
    <<c.energy, c.is_bursting, c.bursts_activated_individual,
      c.burst_energy_spent_individual>>

\* C26: the trigger step of a move starts a burst exactly when the creature
\* is not bursting, the burst output exceeds the threshold and the energy
\* covers BURST_ENERGY_COST; it then deducts the cost, counts one activation
\* and books the cost, and otherwise changes none of these fields; every
\* creature has burst_energy_spent = bursts_activated * BURST_ENERGY_COST.
C26_BurstAccounting ==
    /\ \A k \in DOMAIN creatures :
          creatures[k].burst_energy_spent_individual
              = creatures[k].bursts_activated_individual * BURST_ENERGY_COST
    /\ Moved =>
          IF /\ ~last.pre.is_bursting
             /\ 10 * last.out[2] > BURST_NN_THRESHOLD
             /\ last.pre.energy >= BURST_ENERGY_COST
          THEN burst_account(last.steps.triggered)
                  = <<last.pre.energy - BURST_ENERGY_COST, TRUE,
                      last.pre.bursts_activated_individual + 1,
                      last.pre.burst_energy_spent_individual + BURST_ENERGY_COST>>
          ELSE burst_account(last.steps.triggered) = burst_account(last.pre)

\* C26 witness: a move that started a burst, made by a creature that the
\* move left with one activation and its cost on the books.
C26_Witness ==
    /\ BurstStarted
    /\ last.post.bursts_activated_individual = 1
    /\ last.post.burst_energy_spent_individual = BURST_ENERGY_COST

\* C27: a move made while bursting (the move that starts the burst included)
\* runs at the multiplied speed and takes 1 off burst_frames_left, a move
\* made while not bursting runs at the base speed and leaves the countdown
\* alone; is_bursting is cleared exactly when the countdown reaches 0; and a
\* bursting creature has 0 < burst_frames_left <= BURST_DURATION_FRAMES.
\* A burst therefore covers BURST_DURATION_FRAMES consecutive moves.
C27_BurstCountdown ==
    /\ \A k \in DOMAIN creatures :
          creatures[k].is_bursting =>
              /\ 0 < creatures[k].burst_frames_left
              /\ creatures[k].burst_frames_left <= BURST_DURATION_FRAMES
    /\ Moved =>
          /\ BurstStarted => last.steps.triggered.burst_frames_left = BURST_DURATION_FRAMES
          /\ IF last.steps.triggered.is_bursting
             THEN /\ 10 * last.post.current_speed = last.pre.speed * BURST_SPEED_MULTIPLIER
                  /\ last.post.burst_frames_left = last.steps.triggered.burst_frames_left - 1
                  /\ last.post.is_bursting = (last.post.burst_frames_left > 0)
             ELSE /\ last.post.current_speed = last.pre.speed
                  /\ last.post.burst_frames_left = last.pre.burst_frames_left
                  /\ ~last.post.is_bursting

\* C27 witness: the move that ends a burst, the last of its
\* BURST_DURATION_FRAMES moves.
C27_Witness ==
    /\ Moved
    /\ last.pre.is_bursting
    /\ last.pre.burst_frames_left = 1
    /\ last.post.burst_frames_left = 0
    /\ ~last.post.is_bursting
    /\ last.post.bursts_activated_individual = 1

\* C28: after a move the creature is inside the world, radius <= x <= WIDTH -
\* radius and radius <= y <= HEIGHT - radius, wherever it was before; the
\* heading is reflected as 180 - heading exactly when the position left by
\* the obstacle check is beyond an x edge and as 360 - heading exactly when
\* it is beyond a y edge.
C28_InsideWorldAfterMove ==
    Moved =>
        LET hit == last.steps.hit
            x_edge == hit.x - CREATURE_RADIUS < 0 \/ hit.x + CREATURE_RADIUS > WIDTH
            y_edge == hit.y - CREATURE_RADIUS < 0 \/ hit.y + CREATURE_RADIUS > HEIGHT
            after_x == IF x_edge THEN 180 - hit.direction ELSE hit.direction
        IN /\ CREATURE_RADIUS <= last.post.x
           /\ last.post.x <= WIDTH - CREATURE_RADIUS
           /\ CREATURE_RADIUS <= last.post.y
           /\ last.post.y <= HEIGHT - CREATURE_RADIUS
           /\ last.post.direction = IF y_edge THEN 360 - after_x ELSE after_x

\* C28 witness: the first move of an offspring that was placed beyond the
\* left edge of the world.
C28_Witness ==
    /\ Moved
    /\ last.pre.x < CREATURE_RADIUS
    /\ last.post.x = CREATURE_RADIUS
    /\ last.post.direction = 180 - last.steps.hit.direction

\* C29: in the update of a creature that is not dying and reaches food, the
\* food energy is added (up to the maximum) to the energy the movement left,
\* the decay is subtracted after that, and the creature is dying only if the
\* result is not positive.
C29_EatBeforeDecay ==
    (last.op = "update" /\ ~last.pre.is_dying /\ last.eaten > 0) =>
        LET energy == Min(last.mid.energy + last.eaten * FOOD_ENERGY_GAIN,
                          CREATURE_MAX_ENERGY) - CREATURE_ENERGY_DECAY
        IN /\ last.post.energy = energy
           /\ last.post.is_dying = (energy <= 0)

\* C30: the world never holds more than MAX_FOOD_COUNT food items, and the
\* list grows only in the spawn step of a frame, by one item, and only from a
\* length below the cap.
C30_FoodWithinCap ==
    /\ [](Len(food_items) <= MAX_FOOD_COUNT)
    /\ [][Len(food_items') > Len(food_items) =>
            /\ pc = "food"
            /\ pc' = "update"
            /\ Len(food_items') = Len(food_items) + 1
            /\ Len(food_items) < MAX_FOOD_COUNT]_vars

\* C30 witness: the spawn step of a frame is reached with the world at its
\* cap of two food items.
C30_Witness ==
    /\ pc = "food"
    /\ MAX_FOOD_COUNT = 2
    /\ Len(food_items) = MAX_FOOD_COUNT

\* C31: after a generation boundary no two obstacles overlap and every
\* creature of the new population is at least radius + min_spawn_distance
\* away from every obstacle; the obstacles change in no other step than a
\* generation boundary or a restart.
C31_ObstaclesRegenerated ==
    /\ []((last.op = "generation" /\ pc = "food") =>
            /\ \A i, j \in DOMAIN obstacles :
                  i # j => ~obstacles_overlap(obstacles[i], obstacles[j])
            /\ \A k \in DOMAIN creatures, i \in DOMAIN obstacles :
                  RectDistSq(creatures[k].x, creatures[k].y, obstacles[i])
                      >= Sq(CREATURE_RADIUS + MIN_SPAWN_DISTANCE_FROM_OBSTACLE))
    /\ [][obstacles' # obstacles =>
            \/ pc = "generation"
            \/ last'.op = "event"]_vars

\* C31 witness: a boundary that replaced the two obstacles by two others.
C31_Witness ==
    /\ last.op = "generation"
    /\ pc = "food"
    /\ Len(obstacles) = 2
    /\ Len(creatures) = INITIAL_CREATURE_COUNT
    /\ \E i \in DOMAIN obstacles :
          <<obstacles[i].x, obstacles[i].y>> \in {<<9, 17>>, <<17, 17>>, <<15, 14>>}

\* C32: when a generation ends in which no creature was removed, so that the
\* population is every creature that lived in it, the two burst totals of
\* the generation are the sums of bursts_activated and of the burst energy
\* spent over the population.
C32_BurstTotalsCoverPopulation ==
    (last.op = "generation" /\ Len(last.population) = INITIAL_CREATURE_COUNT) =>
        /\ last.before.total_bursts_activated_gen
              = SeqSum([k \in DOMAIN last.population |->
                          last.population[k].bursts_activated_individual])
        /\ last.before.total_burst_energy_spent_gen
              = SeqSum([k \in DOMAIN last.population |->
                          last.population[k].burst_energy_spent_individual])

\* lines 301-318, 338-341: a step of one of the two passes over the creatures,
\* by its effect on the position in the loop (UpdateCreature and DrawCreature
\* are the only steps that leave pc alone and move idx on by one)
PassStep ==
    /\ pc \in {"update", "draw"}
    /\ idx <= Len(creatures)
    /\ idx' = idx + 1
    /\ pc' = pc

\* the steps of a frame, the events at its top left out
LoopStep ==
    \/ FrameStart
    \/ GenerationEnd
    \/ SpawnFood
    \/ PassStep
    \/ RemoveFaded
    \/ FrameEnd

\* the main loop runs its statements one after the other: the events of a
\* frame are a finite queue, and after them every step of the frame is taken
LoopFairness == WF_<<pc, idx>>(LoopStep)

SpecLongFair == InitLong /\ [][Next]_vars /\ LoopFairness

FadeConfig ==
    [LongConfig EXCEPT !.INITIAL_CREATURE_COUNT = 1,
                       !.MAX_FOOD_COUNT = 1,
                       !.FOOD_LIMIT_PER_GENERATION = 2]

FadeRandom ==
    [food_spots |-> {<<15, 20>>},
     obstacle_spots |-> {<<20, 23>>, <<13, 26>>},
     initial |-> [tried : {<<15, 15>>}, fallback : {<<5, 5>>},
                  color : {<<50, 200, 120>>}, direction : {90},
                  genome : {BursterGenome}],
     offspring |-> [low : {{}}, sign : {1}, fresh : {0},
                    first : {<<0, 0>>}, retry : {<<-25, 0>>},
                    fallback : {<<5, 5>>}, direction : {90}]]

InitFade == InitWith({FadeConfig}, {FadeRandom})

SpecFadeFair == InitFade /\ [][Next]_vars /\ LoopFairness

\* the creatures of the list that are fading out
dying(list) == {k \in DOMAIN list : list[k].is_dying}

PairConfig ==
    [FadeConfig EXCEPT !.INITIAL_CREATURE_COUNT = 2]

InitPair == InitWith({PairConfig}, {FadeRandom})

SpecPair == InitPair /\ [][Next]_vars

\* the food eaten in this generation by creatures that are no longer in the
\* list
eaten_by_removed ==
    food_eaten_this_generation
        - SeqSum([k \in DOMAIN creatures |-> creatures[k].food_eaten_individual])

\* the step at hand is the update of one creature
updating == pc = "update" /\ idx <= Len(creatures)

\* the step at hand is the removal of the creatures that have faded out
removing == pc = "update" /\ idx > Len(creatures)

\* C35: each food item is eaten at most once: the update of a creature takes
\* every item the creature has reached out of the world before the next
\* creature is updated, and the two food counters and the creature's own
\* count go up by exactly the number of items taken; no other step within a
\* generation takes food away or changes a counter, so food_eaten_count
\* never decreases; and the sum of food_eaten_individual over the creatures
\* of the generation is food_eaten_this_generation, the creatures removed
\* after fading counted with what they had eaten.
C35_FoodEatenOnce ==
    /\ [][updating =>
            LET n == Len(food_items) - Len(food_items')
            IN /\ n = last'.eaten
               /\ eaten_food(creatures'[idx], food_items') = {}
               /\ food_eaten_count' = food_eaten_count + n
               /\ food_eaten_this_generation' = food_eaten_this_generation + n
               /\ creatures'[idx].food_eaten_individual = creatures[idx].food_eaten_individual + n
               /\ eaten_by_removed' = eaten_by_removed]_vars
    /\ [][(~updating /\ pc # "generation") =>
            /\ Len(food_items') >= Len(food_items)
            /\ food_eaten_this_generation' = food_eaten_this_generation]_vars
    /\ [][(~updating /\ last'.op # "event") => food_eaten_count' = food_eaten_count]_vars
    /\ [][removing =>
            eaten_by_removed' - eaten_by_removed =
                SeqSum([k \in DOMAIN creatures |->
                          IF creatures[k].is_dying /\ creatures[k].fade_alpha <= 0
                          THEN creatures[k].food_eaten_individual ELSE 0])]_vars
    /\ [][(~removing /\ pc # "generation") => eaten_by_removed' = eaten_by_removed]_vars
    /\ []((pc \in {"frame", "food"} /\ frame_count_this_generation = 0) => eaten_by_removed = 0)

C35_Witness ==
    /\ last.op = "update"
    /\ idx = 3
    /\ last.eaten = 0
    /\ creatures[1].x = creatures[2].x
    /\ creatures[1].y = creatures[2].y
    /\ creatures[1].food_eaten_individual = 1
    /\ creatures[2].food_eaten_individual = 0
    /\ food_eaten_this_generation = 1
    /\ food_items = <<>>

-----------------------------------------------------------------------------
(* creatures.py: the storage of the genomes.  heap.objects are the list and
   tuple objects, an address being an index into it; the outer list of a
   weight matrix holds the addresses of its rows.  heap.owners gives, for the
   parent (first) and every offspring, the addresses its attributes hold. *)

\* creatures.py lines 87-128: the objects of a creature's color, weights and
\* biases, put behind the objects there are, and the addresses of the five
\* attributes
store_genome(objects, c) ==
    LET base == Len(objects)
        n1 == Len(c.weights_ih)
        n2 == Len(c.weights_ho)
    IN [objects |-> objects
                    \o <<c.color>>
                    \o c.weights_ih
                    \o <<[i \in 1..n1 |-> base + 1 + i]>>
                    \o <<c.biases_h>>
                    \o c.weights_ho
                    \o <<[i \in 1..n2 |-> base + n1 + 3 + i]>>
                    \o <<c.biases_o>>,
        refs |-> [color |-> base + 1,
                  weights_ih |-> base + n1 + 2,
                  biases_h |-> base + n1 + 3,
                  weights_ho |-> base + n1 + n2 + 4,
                  biases_o |-> base + n1 + n2 + 5]]

\* what the attributes of a creature read: self.color, self.weights_ih,
\* self.biases_h, self.weights_ho, self.biases_o
load_genome(objects, refs) ==
    <<objects[refs.color],
      [i \in DOMAIN objects[refs.weights_ih] |-> objects[objects[refs.weights_ih][i]]],
      objects[refs.biases_h],
      [i \in DOMAIN objects[refs.weights_ho] |-> objects[objects[refs.weights_ho][i]]],
      objects[refs.biases_o]>>

\* the objects a creature's genome can be changed through
storage_of(objects, refs) ==
    {refs.color, refs.weights_ih, refs.biases_h, refs.weights_ho, refs.biases_o}
        \cup {objects[refs.weights_ih][i] : i \in DOMAIN objects[refs.weights_ih]}
        \cup {objects[refs.weights_ho][i] : i \in DOMAIN objects[refs.weights_ho]}

\* the creature self with the genome its attributes read
with_genome(self, g) ==
    [self EXCEPT !.color = g[1], !.weights_ih = g[2], !.biases_h = g[3],
                 !.weights_ho = g[4], !.biases_o = g[5]]

\* reproduce writing through the parent's own lists: "offspring_weights_ih =
\* self.weights_ih" instead of new lists
reproduce_storage_aliased(h, self, child) ==
    LET refs == h.owners[1]
        rows(r, m) == [a \in DOMAIN h.objects |->
                          IF \E i \in DOMAIN h.objects[r] : h.objects[r][i] = a
                          THEN m[CHOOSE i \in DOMAIN h.objects[r] : h.objects[r][i] = a]
                          ELSE <<>>]
    IN [objects |-> [a \in DOMAIN h.objects |->
                        IF a = refs.color THEN child.color
                        ELSE IF a = refs.biases_h THEN child.biases_h
                        ELSE IF a = refs.biases_o THEN child.biases_o
                        ELSE IF a \in {h.objects[refs.weights_ih][i] : i \in DOMAIN h.objects[refs.weights_ih]}
                             THEN rows(refs.weights_ih, child.weights_ih)[a]
                        ELSE IF a \in {h.objects[refs.weights_ho][i] : i \in DOMAIN h.objects[refs.weights_ho]}
                             THEN rows(refs.weights_ho, child.weights_ho)[a]
                        ELSE h.objects[a]],
        owners |-> Append(h.owners, refs)]

\* lines 551-631: "list(self.color)" and "tuple(offspring_color)" make new
\* objects, lines 559-564 make new lists for the weights and biases, lines
\* 567-604 read the parent's numbers and write the offspring's lists only,
\* and Creature.__init__ keeps the lists it is given (lines 119-128)
reproduce_storage(h, self, child) ==
    LET s == store_genome(h.objects, child)
    IN [objects |-> s.objects, owners |-> Append(h.owners, s.refs)]

\* calls of reproduce followed by the check
MaxOffspring == 2

BreedRandom ==
    [UnitRandom EXCEPT !.initial = {d \in UnitRandom.initial : d.genome # HungryGenome}]

InitBreed ==
    /\ cfg \in UnitConfigs
    /\ rnd = BreedRandom
    /\ obstacles \in initialize_obstacles(NUM_OBSTACLES, rnd.obstacle_spots, OBSTACLE_SIZE, MIN_SPAWN_DISTANCE_FROM_OBSTACLE, <<>>, <<>>)
    /\ creatures \in initial_populations(1, 0, obstacles)
    /\ LET s == store_genome(<<>>, creatures[1])
       IN heap = [objects |-> s.objects, owners |-> <<s.refs>>]
    /\ gui = NoPanel
    /\ food_items = <<>>
    /\ food_eaten_count = 0
    /\ food_eaten_this_generation = 0
    /\ current_generation = 0
    /\ frame_count_this_generation = 0
    /\ total_bursts_activated_gen = 0
    /\ total_burst_energy_spent_gen = 0
    /\ pc = "unit"
    /\ idx = 1
    /\ log_rows = <<>>
    /\ last = NoObservation

\* creatures.py lines 530-631: one more call of reproduce on the same parent
ReproduceInStorage ==
    /\ pc = "unit"
    /\ Len(heap.owners) <= MaxOffspring
    /\ \E d \in rnd.offspring :
          LET self == with_genome(creatures[idx], load_genome(heap.objects, heap.owners[1]))
              child == reproduce(self, d, Len(heap.owners) + 1, 1, MUTATION_CHANCE, NN_MUTATION_AMOUNT, COLOR_MUTATION_AMOUNT, NN_HIDDEN_NODES, obstacles)
          IN /\ offspring_possible(self, d, rnd.offspring, obstacles)
             /\ heap' = reproduce_storage(heap, self, child)
             /\ last' = [op |-> "reproduce", parent |-> self, draw |-> d,
                         mutation_chance |-> MUTATION_CHANCE,
                         offspring |-> child]
    /\ UNCHANGED <<cfg, rnd, gui, log_rows, creatures, food_items, obstacles, food_eaten_count,
                   food_eaten_this_generation, current_generation,
                   frame_count_this_generation, total_bursts_activated_gen,
                   total_burst_energy_spent_gen, pc, idx>>

NextBreed == ReproduceInStorage

SpecBreed == InitBreed /\ [][NextBreed]_vars

\* C36: reproduce leaves the parent unchanged and shares no mutable genome
\* storage with the offspring: after any number of calls, with any
\* mutation_chance, the parent's color, weights and biases read what they
\* read before the calls, no list or tuple of one creature's genome belongs
\* to another creature's, and a call changes the genome of no creature that
\* exists already, so a mutation applied to one offspring changes neither
\* the parent nor a sibling.
C36_ReproduceSharesNoStorage ==
    /\ [](heap.owners # <<>> =>
            /\ load_genome(heap.objects, heap.owners[1]) = genes(creatures[1])
            /\ \A a, b \in DOMAIN heap.owners :
                  a # b => storage_of(heap.objects, heap.owners[a])
                              \cap storage_of(heap.objects, heap.owners[b]) = {})
    /\ [][\A a \in DOMAIN heap.owners :
            load_genome(heap'.objects, heap'.owners[a]) = load_genome(heap.objects, heap.owners[a])]_vars

C36_Witness ==
    /\ Len(heap.owners) = 3
    /\ MUTATION_CHANCE > 0
    /\ load_genome(heap.objects, heap.owners[2]) # load_genome(heap.objects, heap.owners[1])
    /\ load_genome(heap.objects, heap.owners[3]) # load_genome(heap.objects, heap.owners[1])
    /\ load_genome(heap.objects, heap.owners[3]) # load_genome(heap.objects, heap.owners[2])

-----------------------------------------------------------------------------
(* gui.py: the control panel.  gui.processes are the simulation processes
   the panel has started, in order, each "running", "exited" (it ended by
   itself), "terminated" or "killed"; gui.simulation_process is the index of
   the process the panel refers to, 0 for None. *)

\* tkinter: the two states of a button
NORMAL == "normal"
DISABLED == "disabled"

\* launches of a simulation in one run of the panel
MaxLaunches == 3

\* lines 33-45, 113-117: the panel after construction
Panel ==
    [window |-> "open", simulation_process |-> 0, processes |-> <<>>,
     run_button |-> NORMAL, stop_button |-> DISABLED, entries_valid |-> TRUE]

\* "self.simulation_process and self.simulation_process.poll() is None"
simulation_running(g) ==
    g.simulation_process # 0 /\ g.processes[g.simulation_process] = "running"

\* lines 148-191: started says whether subprocess.Popen returned a process
\* (it raises otherwise); get_params returns None if an entry does not parse
run_simulation(g, started) ==
    IF simulation_running(g) THEN g
    ELSE IF ~g.entries_valid THEN g
    ELSE IF ~started THEN g
    ELSE [g EXCEPT !.processes = Append(@, "running"),
                   !.simulation_process = Len(g.processes) + 1,
                   !.run_button = DISABLED,
                   !.stop_button = NORMAL]

\* the reference dropped and the buttons reset without ending the process
stop_simulation_forgets(g, in_time) ==
    IF simulation_running(g)
    THEN [g EXCEPT !.simulation_process = 0,
                   !.run_button = NORMAL,
                   !.stop_button = DISABLED]
    ELSE g

\* lines 193-211: in_time says whether the process ended within the 5
\* seconds of wait() after terminate(); it is killed otherwise
stop_simulation(g, in_time) ==
    IF simulation_running(g)
    THEN [g EXCEPT !.processes[g.simulation_process] =
                        IF in_time THEN "terminated" ELSE "killed",
                   !.simulation_process = 0,
                   !.run_button = NORMAL,
                   !.stop_button = DISABLED]
    ELSE g

\* lines 247-259: yes is the answer to the question asked while a simulation
\* is running
on_closing(g, yes, in_time) ==
    IF simulation_running(g)
    THEN IF yes
         THEN [stop_simulation(g, in_time) EXCEPT !.window = "destroyed"]
         ELSE g
    ELSE [g EXCEPT !.window = "destroyed"]

InitPanel ==
    /\ cfg = DefaultConfig
    /\ rnd = LoopRandom
    /\ heap = NoStorage
    /\ gui = Panel
    /\ creatures = <<>>
    /\ food_items = <<>>
    /\ obstacles = <<>>
    /\ food_eaten_count = 0
    /\ food_eaten_this_generation = 0
    /\ current_generation = 0
    /\ frame_count_this_generation = 0
    /\ total_bursts_activated_gen = 0
    /\ total_burst_energy_spent_gen = 0
    /\ pc = "mainloop"
    /\ idx = 0
    /\ log_rows = <<>>
    /\ last = NoObservation

\* the variables of the simulation, which the panel does not touch
simulation_vars ==
    <<cfg, rnd, heap, creatures, food_items, obstacles, food_eaten_count,
      food_eaten_this_generation, current_generation,
      frame_count_this_generation, total_bursts_activated_gen,
      total_burst_energy_spent_gen, pc, idx, log_rows>>

\* line 113: a click on the Run button, which tkinter delivers only while
\* the button is enabled
PressRun ==
    /\ pc = "mainloop"
    /\ gui.window = "open"
    /\ gui.run_button = NORMAL
    /\ Len(gui.processes) < MaxLaunches
    /\ \E started \in BOOLEAN :
          /\ gui' = run_simulation(gui, started)
          /\ last' = [op |-> "run_simulation", started |-> started]
    /\ UNCHANGED simulation_vars

\* line 116: a click on the Stop button
PressStop ==
    /\ pc = "mainloop"
    /\ gui.window = "open"
    /\ gui.stop_button = NORMAL
    /\ \E in_time \in BOOLEAN :
          /\ gui' = stop_simulation(gui, in_time)
          /\ last' = [op |-> "stop_simulation", in_time |-> in_time]
    /\ UNCHANGED simulation_vars

\* line 45: the user closes the window of the panel
CloseWindow ==
    /\ pc = "mainloop"
    /\ gui.window = "open"
    /\ \E yes \in BOOLEAN, in_time \in BOOLEAN :
          /\ gui' = on_closing(gui, yes, in_time)
          /\ last' = [op |-> "on_closing", yes |-> yes, in_time |-> in_time]
    /\ UNCHANGED simulation_vars

\* lines 136-146: the user edits an entry; its text parses as a number or not
EditEntry ==
    /\ pc = "mainloop"
    /\ gui.window = "open"
    /\ gui' = [gui EXCEPT !.entries_valid = ~@]
    /\ last' = [op |-> "entry"]
    /\ UNCHANGED simulation_vars

\* main.py lines 173-174, 373: a simulation ends by itself (its window is
\* closed, or it stops with an error)
ProcessExits ==
    /\ pc = "mainloop"
    /\ \E p \in DOMAIN gui.processes :
          /\ gui.processes[p] = "running"
          /\ gui' = [gui EXCEPT !.processes[p] = "exited"]
    /\ last' = [op |-> "exit"]
    /\ UNCHANGED simulation_vars

NextPanel ==
    \/ PressRun
    \/ PressStop
    \/ CloseWindow
    \/ EditEntry
    \/ ProcessExits

SpecPanel == InitPanel /\ [][NextPanel]_vars

\* the simulations the panel has started that are alive
alive_processes == {p \in DOMAIN gui.processes : gui.processes[p] = "running"}

\* C37: at most one simulation started by the panel is alive at any time: a
\* simulation is started only while no earlier one is running, and once the
\* window has been closed no simulation the panel started is running.
C37_OneSimulationAtATime ==
    /\ [](gui.window # "absent" =>
            /\ Cardinality(alive_processes) <= 1
            /\ alive_processes \subseteq {gui.simulation_process}
            /\ gui.window = "destroyed" => alive_processes = {})
    /\ [][Len(gui'.processes) > Len(gui.processes) => alive_processes = {}]_vars

C37_Witness ==
    /\ gui.window = "destroyed"
    /\ Len(gui.processes) = 2
    /\ gui.processes[1] \in {"terminated", "killed"}
    /\ gui.processes[2] \in {"terminated", "killed"}
    /\ last.op = "on_closing"
    /\ last.yes

\* C38: the panel can always start a simulation again once none is running:
\* while the window is open and no simulation runs, either the Run button is
\* enabled, or the Stop button is enabled and pressing it enables Run and
\* clears the stored process reference.
C38_RunButtonComesBack ==
    (gui.window = "open" /\ alive_processes = {}) =>
        \/ gui.run_button = NORMAL
        \/ /\ gui.stop_button = NORMAL
           /\ \A in_time \in BOOLEAN :
                 /\ stop_simulation(gui, in_time).run_button = NORMAL
                 /\ stop_simulation(gui, in_time).simulation_process = 0

=========================================================================
